---- MODULE Spec2Model ----
(***************************************************************************)
(* Beefmote: the remote-control server plugin of the DeaDBeeF player.      *)
(* The model follows src/unnamed/part_000 (the plugin's beefmote.c): the   *)
(* background task beefmote_thread, the host thread that runs              *)
(* plugin_start, the event callback beefmote_message and plugin_stop, and  *)
(* the client side of the TCP socket.                                      *)
(*                                                                         *)
(* C strings are TLA+ strings; a C index j (0-based) is position j+1.      *)
(***************************************************************************)
EXTENDS Integers, Sequences, FiniteSets, TLC

(***************************************************************************)
(* Bounds of the environment: connection attempts made by clients, buffers *)
(* sent by clients, events delivered by the host.                          *)
(***************************************************************************)
MaxConns == 2
MaxSends == 1
MaxEvents == 1
\* Buffers sent by the one client of the single-session specification.
SessionSends == 2

(***************************************************************************)
(* Program constants.                                                      *)
(***************************************************************************)
BEEFMOTE_COMMANDS_N == 23
BEEFMOTE_BUFSIZE == 1000
BEEFMOTE_STR_MAXLENGTH == 1000
BEEFMOTE_HELP == 1
BEEFMOTE_PLAYLISTS == 2
BEEFMOTE_TRACKLIST == 3
BEEFMOTE_TRACKLIST_ADDRESS == 4
BEEFMOTE_TRACKCURR == 5
BEEFMOTE_PLAY == 6
BEEFMOTE_PLAY_SEARCH == 7
BEEFMOTE_PLAY_ADDRESS == 8
BEEFMOTE_RANDOM == 9
BEEFMOTE_PLAY_RESUME == 10
BEEFMOTE_STOP_AFTER_CURRENT == 11
BEEFMOTE_STOP == 12
BEEFMOTE_PREVIOUS == 13
BEEFMOTE_NEXT == 14
BEEFMOTE_VOLUME_UP == 15
BEEFMOTE_VOLUME_DOWN == 16
BEEFMOTE_SEEK_FORWARD == 17
BEEFMOTE_SEEK_BACKWARD == 18
BEEFMOTE_SEARCH == 19
BEEFMOTE_NOTIFY_PLAYLISTCHANGED == 20
BEEFMOTE_NOTIFY_NOW_PLAYING == 21
BEEFMOTE_ADD_SEARCH_PLAYBACKQUEUE == 22
BEEFMOTE_EXIT == 23

BEEFMOTE_VOLUME_STEP == 5
BEEFMOTE_SEEK_STEP == 5

\* The value of a descriptor variable that holds no descriptor.
NoSocket == -1
\* The descriptor socket() returns to beefmote_listen: the lowest one free
\* after stdin, stdout and stderr.
ListenFd == 3

\* The byte after the end of a C string.
NUL == "NUL"

(***************************************************************************)
(* The command registry built by beefmote_initialize_commands, in the      *)
(* order of enum BEEFMOTE_COMMANDS (1-based here).                         *)
(***************************************************************************)
\* static beefmote_command beefmote_commands[BEEFMOTE_COMMANDS_N];
VARIABLE beefmote_commands

\* Faulty variant of beefmote_command_new: only the name's first byte is stored.
beefmote_command_new_Truncates(comm_name, comm_help) ==
    [name |-> IF Len(comm_name) > 1 THEN SubSeq(comm_name, 1, 1) ELSE comm_name,
     name_len |-> IF Len(comm_name) > 1 THEN 1 ELSE Len(comm_name),
     help |-> comm_help]

beefmote_command_new(comm_name, comm_help) ==
    [name |-> comm_name, name_len |-> Len(comm_name), help |-> comm_help]

beefmote_initialize_commands ==
    << beefmote_command_new("h", "prints this message."),
       beefmote_command_new("pl", "usage: pl [idx]. If passed with no arguments, prints all playlists (the current playlist is marked with (*)). If passed with an index number, sets the current playlist to the playlist with index idx."),
       beefmote_command_new("tl", "prints all the tracks in the current playlist."),
       beefmote_command_new("tla", "like tl, but prepends each track by its memory address."),
       beefmote_command_new("tc", "prints the current track."),
       beefmote_command_new("pp", "plays current track."),
       beefmote_command_new("ps", "usage: ps idx. Plays a track by its index in the search list."),
       beefmote_command_new("pa", "usage: pa memaddr. Plays a track by memory address; memaddr must be written in hex notation."),
       beefmote_command_new("r", "plays random track."),
       beefmote_command_new("p", "Usage: p [idx]. If passed with no arguments, pauses/resumes playback. If passed with an index, plays the track at index idx in the current playlist."),
       beefmote_command_new("sac", "stops playback after current track."),
       beefmote_command_new("s", "stops playback."),
       beefmote_command_new("pv", "plays previous track."),
       beefmote_command_new("nt", "plays next track."),
       beefmote_command_new("vu", "usage: vu [step]. If no argument is passed, increases volume by a default step of 5. If a number is passed, increases volume by that amount."),
       beefmote_command_new("vd", "usage: vd [step]. If no argument is passed, decreases volume by a default step of 5. If a number is passed, decreases volume by that amount."),
       beefmote_command_new("sf", "seeks forward."),
       beefmote_command_new("sb", "seeks backward."),
       beefmote_command_new("/", "usage: / str. Searches a string in the current playlist and returns a list of matching tracks. The matched tracks can be played by using their index number with the ps command."),
       beefmote_command_new("ntfy-plchanged", "Notifies when the current playlist has changed (meaning you'll probably want to get the tracklist again)."),
       beefmote_command_new("ntfy-nowplaying", "usage: ntfy-nowplaying true/false. Sets whether to notify when a new track starts to play. Default: false."),
       beefmote_command_new("aps", "usage: aps idx. Adds a searched track to the playback queue."),
       beefmote_command_new("exit", "terminates Deadbeef.") >>

(***************************************************************************)
(* The parser of beefmote_process_command.                                 *)
(***************************************************************************)
\* n copies of str.
RECURSIVE Repeat(_, _)
Repeat(str, n) ==
    IF n = 0 THEN ""
    ELSE IF n % 2 = 0 THEN Repeat(str \o str, n \div 2)
    ELSE str \o Repeat(str \o str, n \div 2)

\* <ctype.h> isspace in the C locale (the vertical tab has no TLA+ escape).
isspace(c) == c \in {" ", "\t", "\n", "\r", "\f"}

\* command[j]: the bytes read, then the zeroes left by memset.
At(s, j) == IF j >= 0 /\ j < Len(s) THEN SubSeq(s, j + 1, j + 1) ELSE NUL

\* The smallest member of a non-empty set of integers.
Lowest(S) == CHOOSE x \in S : \A y \in S : x <= y

\* The first loop: ptr is advanced before the body runs, so the body looks at
\* command[1], command[2], ... and stops at the first whitespace among them.
\* The result is the index the loop stopped at, or -1 when it ran off the end.
ScanFrom(command, j) ==
    LET found == {k \in j..(Len(command) - 1) : isspace(At(command, k))}
    IN IF found = {} THEN -1 ELSE Lowest(found)

ScanStop(command) == ScanFrom(command, 1)

\* Whether the loop's first branch was the one taken at index j: arg is set
\* only if the byte after the whitespace is neither NUL nor whitespace.
ArgFound(command, j) ==
    j # -1 /\ At(command, j + 1) # NUL /\ ~isspace(At(command, j + 1))

\* Faulty variant of ArgEnd: the argument is cut at its first blank.
RECURSIVE ArgEnd_StopsAtBlank(_, _)
ArgEnd_StopsAtBlank(command, a) ==
    IF a + 1 >= Len(command) THEN Len(command)
    ELSE IF isspace(At(command, a + 1)) THEN a + 1
    ELSE ArgEnd_StopsAtBlank(command, a + 1)

\* The second loop: the argument ends at the first CR or LF after its first
\* byte (every such byte is overwritten with NUL), or at the end of the data.
RECURSIVE ArgEnd(_, _)
ArgEnd(command, a) ==
    IF a + 1 >= Len(command) THEN Len(command)
    ELSE IF At(command, a + 1) \in {"\r", "\n"} THEN a + 1
    ELSE ArgEnd(command, a + 1)

\* The highest index of command[] the parser touches.  Each round of the
\* first loop reads command[p] in its condition and, with ptr advanced to
\* p + 1, reads *(ptr + 1) = command[p + 2] before *ptr: a loop that runs to
\* the terminating NUL at Len(command) has read command[Len(command) + 1],
\* and one that stops at the whitespace at j has read command[j + 1].  The
\* second loop runs to the terminating NUL.
MaxTouched(command) ==
    LET j == ScanStop(command)
    IN IF j = -1 THEN Len(command) + 1
       ELSE IF ArgFound(command, j) THEN Len(command)
       ELSE j + 1

\* The parser leaves char beefmote_buffer[BEEFMOTE_BUFSIZE]: what it reads
\* (and may overwrite with NUL) there is whatever the stack holds.
ParseOverrun(command) == MaxTouched(command) >= BEEFMOTE_BUFSIZE
OverrunOutcomes == {"reads_zero", "crash"}

\* What the parser hands to the dispatcher: the token as read by
\* strlen/strncmp, and arg as a sequence that is empty for a NULL pointer.
ParseCommand(command) ==
    LET j == ScanStop(command)
    IN [ command |-> IF j = -1 THEN command ELSE SubSeq(command, 1, j),
         arg |-> IF ArgFound(command, j)
                 THEN << SubSeq(command, j + 2, ArgEnd(command, j + 1)) >>
                 ELSE << >> ]

\* The dispatcher's linear scan: the first entry whose name_len equals
\* strlen(command) and whose name compares equal; 0 when the scan ends.
\* <string.h> strlen and strncmp (0 for equal, 1 for any difference): the
\* first n bytes are compared, the bytes past the end of a string being NUL.
strlen(str) == Len(str)
strncmp(s1, s2, n) == IF \A j \in 0..(n - 1) : At(s1, j) = At(s2, j) THEN 0 ELSE 1

\* Faulty variant of MatchFrom: the lengths are not compared.
RECURSIVE MatchFrom_NoLength(_, _)
MatchFrom_NoLength(command, i) ==
    IF i > BEEFMOTE_COMMANDS_N THEN 0
    ELSE IF strncmp(beefmote_commands[i].name, command,
                    beefmote_commands[i].name_len) = 0
         THEN i
    ELSE MatchFrom_NoLength(command, i + 1)

RECURSIVE MatchFrom(_, _)
MatchFrom(command, i) ==
    IF i > BEEFMOTE_COMMANDS_N THEN 0
    ELSE IF /\ strlen(command) = beefmote_commands[i].name_len
            /\ strncmp(beefmote_commands[i].name, command,
                       beefmote_commands[i].name_len) = 0
         THEN i
    ELSE MatchFrom(command, i + 1)

MatchCommand(command) == MatchFrom(command, 1)

(***************************************************************************)
(* The command handlers.  A handler is given the argument (data: a         *)
(* sequence, empty for NULL) and the server state it reads, and yields the *)
(* write() calls it makes on the client socket, in order, and the          *)
(* notification flags it leaves.                                           *)
(***************************************************************************)
\* The null track pointer, and the tracks (their addresses) the player may
\* hold.
NULL == 0
Tracks == {1, 2}

\* What client_print_track writes for a track (print_addr = false): the
\* tracks differ in their track number.
TrackStr(track) ==
    "[artist - album] " \o (IF track = 1 THEN "01" ELSE "02") \o " - title (3:00)\n"

(***************************************************************************)
(* The player's API (the deadbeef global), as the handlers use it.  The    *)
(* player's state is a record:                                             *)
(*   plts      the playlists, each with its tracks (main, for PL_MAIN) and *)
(*             its search list (search, for PL_SEARCH)                     *)
(*   plt_curr  the 0-based index of the current playlist, -1 for none      *)
(*   loaded    the tracks that exist (a track handle outside it dangles)   *)
(*   msgs      the messages sent with sendmessage, oldest first            *)
(*   queue     the tracks pushed with playqueue_push, oldest first         *)
(*   playing   whether the output is in OUTPUT_STATE_PLAYING               *)
(*   volume_sets, pos_sets                                                 *)
(*             the number of volume_set_db and of playback_set_pos calls   *)
(*   volume, pos, stop_after_current                                       *)
(*             the volume in dB, the playback position, and the            *)
(*             configuration value playlist.stop_after_current             *)
(***************************************************************************)
PL_MAIN == "PL_MAIN"
PL_SEARCH == "PL_SEARCH"

plt_get_count(d) == Len(d.plts)

\* plt_get_curr, plt_get_for_idx and plt_get_item_for_idx hand out a counted
\* reference with each non-null result: n references of a kind are acquired.
Acquire(r, kind, n) == [r EXCEPT ![kind] = @ + n]

\* plt_unref(pl) and pl_item_unref(track): one reference is released.
plt_unref(r) == [r EXCEPT !.plt = @ - 1]
pl_item_unref(r) == [r EXCEPT !.item = @ - 1]

\* A loop that gets n tracks one after the other and releases each before
\* it gets the next.
RECURSIVE EachReleased(_, _)
EachReleased(r, n) ==
    IF n = 0 THEN r ELSE EachReleased(pl_item_unref(Acquire(r, "item", 1)), n - 1)

\* plt_get_curr: NULL (here FALSE) when there is no current playlist.
plt_get_curr(d) == d.plt_curr # -1

plt_set_curr_idx(d, idx) == [d EXCEPT !.plt_curr = idx]

\* plt_get_item_for_idx(pl_curr, idx, iter): NULL past the end of the list.
plt_get_item_for_idx(d, idx, iter) ==
    LET pl_curr == d.plts[d.plt_curr + 1]
        list == IF iter = PL_MAIN THEN pl_curr.main ELSE pl_curr.search
    IN IF idx >= 0 /\ idx < Len(list) THEN list[idx + 1] ELSE NULL

\* pl_get_idx_of(track): the 0-based index of the track in the main list of
\* the current playlist, -1 for a pointer that is not a track of it.
RECURSIVE IdxFrom(_, _, _)
IdxFrom(list, track, k) ==
    IF k > Len(list) THEN -1
    ELSE IF list[k] = track THEN k - 1
    ELSE IdxFrom(list, track, k + 1)

pl_get_idx_of(d, track) ==
    IF d.plt_curr = -1 THEN -1
    ELSE IdxFrom(d.plts[d.plt_curr + 1].main, track, 1)

sendmessage(d, id, p1) == [d EXCEPT !.msgs = Append(@, [id |-> id, p1 |-> p1])]

playqueue_push(d, track) == [d EXCEPT !.queue = Append(@, track)]

\* volume_get_db / volume_set_db and playback_get_pos / playback_set_pos: the
\* value last set is the value read, and the calls of each setter are counted.
volume_get_db(d) == d.volume
volume_set_db(d, dB) == [d EXCEPT !.volume = dB, !.volume_sets = @ + 1]
playback_get_pos(d) == d.pos
playback_set_pos(d, pos) == [d EXCEPT !.pos = pos, !.pos_sets = @ + 1]

(***************************************************************************)
(* strtol(str, NULL, base) for base 10 and base 16: leading whitespace, an *)
(* optional sign, for base 16 an optional 0x, then the longest run of      *)
(* digits; 0 when there is none.  (The inputs of the model are too short   *)
(* to overflow a long or the int the result is stored in.)                 *)
(***************************************************************************)
\* The value of a digit; 36 for a byte that is no digit.
DigitVal(c) ==
    CASE c = "0" -> 0 [] c = "1" -> 1 [] c = "2" -> 2 [] c = "3" -> 3
      [] c = "4" -> 4 [] c = "5" -> 5 [] c = "6" -> 6 [] c = "7" -> 7
      [] c = "8" -> 8 [] c = "9" -> 9
      [] c \in {"a", "A"} -> 10 [] c \in {"b", "B"} -> 11
      [] c \in {"c", "C"} -> 12 [] c \in {"d", "D"} -> 13
      [] c \in {"e", "E"} -> 14 [] c \in {"f", "F"} -> 15
      [] OTHER -> 36

RECURSIVE SkipSpace(_, _)
SkipSpace(str, j) ==
    IF isspace(At(str, j)) THEN SkipSpace(str, j + 1) ELSE j

RECURSIVE Digits(_, _, _, _)
Digits(str, j, base, acc) ==
    IF DigitVal(At(str, j)) < base
    THEN Digits(str, j + 1, base, acc * base + DigitVal(At(str, j)))
    ELSE acc

strtol(str, base) ==
    LET j == SkipSpace(str, 0)
        neg == At(str, j) = "-"
        k == IF At(str, j) \in {"-", "+"} THEN j + 1 ELSE j
        m == IF /\ base = 16
                /\ At(str, k) = "0"
                /\ At(str, k + 1) \in {"x", "X"}
                /\ DigitVal(At(str, k + 2)) < 16
             THEN k + 2 ELSE k
        v == Digits(str, m, base, 0)
    IN IF neg THEN -v ELSE v

\* sprintf("%d", n) for n >= 0, and sprintf("%p", track).
RECURSIVE DecStr(_)
DecStr(n) ==
    IF n < 10 THEN SubSeq("0123456789", n + 1, n + 1)
    ELSE DecStr(n \div 10) \o SubSeq("0123456789", (n % 10) + 1, (n % 10) + 1)

RECURSIVE HexStr(_)
HexStr(n) ==
    IF n < 16 THEN SubSeq("0123456789abcdef", n + 1, n + 1)
    ELSE HexStr(n \div 16) \o SubSeq("0123456789abcdef", (n % 16) + 1, (n % 16) + 1)

AddrStr(track) == "0x" \o HexStr(track)

\* What client_print_track writes with print_addr = true.
TrackAddrStr(track) == AddrStr(track) \o " " \o TrackStr(track)

\* What a handler leaves when it has made the writes out and changed nothing.
HandlerResult(out, st) ==
    [out |-> out,
     notify_playlistchanged |-> st.notify_playlistchanged,
     notify_nowplaying |-> st.notify_nowplaying,
     deadbeef |-> st.deadbeef,
     refs |-> st.refs,
     crashed |-> FALSE]

\* What a handler leaves when it has made the writes out and left the player
\* in state d.
PlayerResult(out, d, st) == [HandlerResult(out, st) EXCEPT !.deadbeef = d]

\* Faulty variant of HelpLines: the entry of the last command is left out.
RECURSIVE HelpLines_DropsLast(_)
HelpLines_DropsLast(i) ==
    IF i >= BEEFMOTE_COMMANDS_N THEN << >>
    ELSE << beefmote_commands[i].name \o "\n\t" \o beefmote_commands[i].help \o "\n" >>
         \o HelpLines_DropsLast(i + 1)

RECURSIVE HelpLines(_)
HelpLines(i) ==
    IF i > BEEFMOTE_COMMANDS_N THEN << >>
    ELSE << beefmote_commands[i].name \o "\n\t" \o beefmote_commands[i].help \o "\n" >>
         \o HelpLines(i + 1)

beefmote_command_help(data, st) ==
    HandlerResult(<< "\n" >> \o HelpLines(1) \o << "\n" >>, st)

\* The usage reply of the handlers that need an argument.
UsageOut(i) == << "\n", beefmote_commands[i].help, "\n" >>

\* The loop of beefmote_command_playlists over the playlists from index i.
RECURSIVE PlaylistLines(_, _)
PlaylistLines(d, i) ==
    IF i >= plt_get_count(d) THEN << >>
    ELSE << "\nPlaylist " \o DecStr(i + 1) \o ": Default" >>
         \o (IF d.plt_curr = i THEN << " (*)" >> ELSE << >>)
         \o << "\n" >>
         \o PlaylistLines(d, i + 1)

beefmote_command_playlists(data, st) ==
    LET d == st.deadbeef
        pl_n == plt_get_count(d)
    IN IF pl_n <= 0 THEN HandlerResult(<< "\nNo playlists\n\n" >>, st)
       ELSE IF data # << >>
            THEN LET idx == strtol(data[1], 10)
                 IN IF idx < 1 \/ idx > pl_n
                    THEN HandlerResult(<< "\nPlaylist index out of bounds\n\n" >>, st)
                    ELSE PlayerResult(<< >>, plt_set_curr_idx(d, idx - 1), st)
       ELSE \* pl_curr and each pl of the loop are acquired, none is released
            [HandlerResult(PlaylistLines(d, 0) \o << "\n" >>, st)
                EXCEPT !.refs = Acquire(Acquire(st.refs, "plt", IF plt_get_curr(d) THEN 1 ELSE 0),
                                        "plt", pl_n)]

\* The loop of client_print_playlist from index i (0-based).
RECURSIVE TrackLines(_, _, _)
TrackLines(d, i, print_addr) ==
    LET track == plt_get_item_for_idx(d, i, PL_MAIN)
    IN IF track = NULL THEN << >>
       ELSE << "(" \o DecStr(i + 1) \o ") ",
               IF print_addr THEN TrackAddrStr(track) ELSE TrackStr(track) >>
            \o TrackLines(d, i + 1, print_addr)

client_print_playlist(d, print_addr) ==
    << "TRACKLIST_BEGIN\n" >> \o TrackLines(d, 0, print_addr) \o << "TRACKLIST_END\n" >>

\* The tracks the loop of client_print_playlist gets.
CurrLen(d, iter) ==
    IF iter = PL_MAIN THEN Len(d.plts[d.plt_curr + 1].main)
    ELSE Len(d.plts[d.plt_curr + 1].search)

beefmote_command_tracklist(data, st) ==
    IF plt_get_curr(st.deadbeef)
    THEN [HandlerResult(client_print_playlist(st.deadbeef, FALSE), st)
             EXCEPT !.refs = plt_unref(EachReleased(Acquire(st.refs, "plt", 1),
                                                    CurrLen(st.deadbeef, PL_MAIN)))]
    ELSE HandlerResult(<< >>, st)

beefmote_command_tracklist_address(data, st) ==
    IF plt_get_curr(st.deadbeef)
    THEN [HandlerResult(client_print_playlist(st.deadbeef, TRUE), st)
             EXCEPT !.refs = plt_unref(EachReleased(Acquire(st.refs, "plt", 1),
                                                    CurrLen(st.deadbeef, PL_MAIN)))]
    ELSE HandlerResult(<< >>, st)

\* beefmote_currtrack is a bare pointer: when the player has freed the track
\* client_print_track reads freed memory, and the handler either writes what
\* it finds there or the process dies in it (st.ub says which).
beefmote_command_trackcurr(data, st) ==
    IF st.currtrack # NULL
    THEN IF st.currtrack \in st.deadbeef.loaded \/ st.ub = "reads_freed"
         THEN HandlerResult(<< "\n", TrackStr(st.currtrack), "\n" >>, st)
         ELSE [HandlerResult(<< "\n" >>, st) EXCEPT !.crashed = TRUE]
    ELSE HandlerResult(<< "\nNo current track\n\n" >>, st)

beefmote_command_play(data, st) ==
    PlayerResult(<< >>, sendmessage(st.deadbeef, "DB_EV_PLAY_CURRENT", 0), st)

beefmote_command_play_search(data, st) ==
    LET d == st.deadbeef
    IN IF data = << >> THEN HandlerResult(UsageOut(BEEFMOTE_PLAY_SEARCH), st)
       ELSE LET track_index == strtol(data[1], 10)
            IN IF track_index = 0
               THEN HandlerResult(<< "\nInvalid search index\n\n" >>, st)
               ELSE IF ~plt_get_curr(d) THEN HandlerResult(<< >>, st)
               ELSE LET track == plt_get_item_for_idx(d, track_index - 1, PL_SEARCH)
                        \* pl_curr is acquired and not released on either path
                        held == Acquire(st.refs, "plt", 1)
                    IN IF track # NULL
                       THEN [PlayerResult(<< "\nPlaying ", TrackStr(track), "\n" >>,
                                          sendmessage(d, "DB_EV_PLAY_NUM", pl_get_idx_of(d, track)),
                                          st)
                                EXCEPT !.refs = pl_item_unref(Acquire(held, "item", 1))]
                       ELSE [HandlerResult(<< "\nInvalid search index\n\n" >>, st)
                                EXCEPT !.refs = held]

\* Faulty variant of beefmote_command_play_address: the result of the lookup
\* is sent without the test for -1.
beefmote_command_play_address_NoTest(data, st) ==
    LET d == st.deadbeef
    IN IF data = << >> THEN HandlerResult(UsageOut(BEEFMOTE_PLAY_ADDRESS), st)
       ELSE PlayerResult(<< >>,
                         sendmessage(d, "DB_EV_PLAY_NUM",
                                     pl_get_idx_of(d, strtol(data[1], 16))),
                         st)

beefmote_command_play_address(data, st) ==
    LET d == st.deadbeef
    IN IF data = << >> THEN HandlerResult(UsageOut(BEEFMOTE_PLAY_ADDRESS), st)
       ELSE LET addr == strtol(data[1], 16)
                idx == pl_get_idx_of(d, addr)
            IN IF idx = -1
               THEN HandlerResult(<< "\nInvalid track memory address\n\n" >>, st)
               ELSE PlayerResult(<< >>, sendmessage(d, "DB_EV_PLAY_NUM", idx), st)

beefmote_command_random(data, st) ==
    PlayerResult(<< >>, sendmessage(st.deadbeef, "DB_EV_PLAY_RANDOM", 0), st)

beefmote_command_play_resume(data, st) ==
    LET d == st.deadbeef
    IN IF data # << >>
       THEN PlayerResult(<< >>, sendmessage(d, "DB_EV_PLAY_NUM", strtol(data[1], 10) - 1), st)
       ELSE IF d.playing
            THEN PlayerResult(<< >>, sendmessage(d, "DB_EV_PAUSE", 0), st)
            ELSE PlayerResult(<< >>, sendmessage(d, "DB_EV_PLAY_CURRENT", 0), st)

beefmote_command_stop(data, st) ==
    PlayerResult(<< >>, sendmessage(st.deadbeef, "DB_EV_STOP", 0), st)

beefmote_command_stop_after_current(data, st) ==
    LET d == st.deadbeef
        value == 1 - d.stop_after_current
    IN PlayerResult(<< >>,
                    sendmessage([d EXCEPT !.stop_after_current = value],
                                "DB_EV_CONFIGCHANGED", 0),
                    st)

beefmote_command_previous(data, st) ==
    PlayerResult(<< >>, sendmessage(st.deadbeef, "DB_EV_PREV", 0), st)

beefmote_command_next(data, st) ==
    PlayerResult(<< >>, sendmessage(st.deadbeef, "DB_EV_NEXT", 0), st)

\* Faulty variant of beefmote_command_volume_up: the argument is not read.
beefmote_command_volume_up_DefaultOnly(data, st) ==
    LET d == st.deadbeef
    IN PlayerResult(<< >>, volume_set_db(d, volume_get_db(d) + BEEFMOTE_VOLUME_STEP), st)

beefmote_command_volume_up(data, st) ==
    LET d == st.deadbeef
        step == IF data # << >> THEN strtol(data[1], 10) ELSE BEEFMOTE_VOLUME_STEP
    IN PlayerResult(<< >>, volume_set_db(d, volume_get_db(d) + step), st)

beefmote_command_volume_down(data, st) ==
    LET d == st.deadbeef
        step == IF data # << >> THEN strtol(data[1], 10) ELSE BEEFMOTE_VOLUME_STEP
    IN PlayerResult(<< >>, volume_set_db(d, volume_get_db(d) - step), st)

beefmote_command_seek_forward(data, st) ==
    LET d == st.deadbeef
    IN PlayerResult(<< >>, playback_set_pos(d, playback_get_pos(d) + BEEFMOTE_SEEK_STEP), st)

beefmote_command_seek_backward(data, st) ==
    LET d == st.deadbeef
    IN PlayerResult(<< >>, playback_set_pos(d, playback_get_pos(d) - BEEFMOTE_SEEK_STEP), st)

\* plt_search_process(pl_curr, arg): the search list becomes the tracks of the
\* main list whose artist, album or title contains arg.
RECURSIVE Contains(_, _, _)
Contains(hay, needle, k) ==
    IF k + Len(needle) - 1 > Len(hay) THEN FALSE
    ELSE IF SubSeq(hay, k, k + Len(needle) - 1) = needle THEN TRUE
    ELSE Contains(hay, needle, k + 1)

TrackMatches(track, arg) ==
    \E field \in {"artist", "album", "title"} : Contains(field, arg, 1)

RECURSIVE Matching(_, _, _)
Matching(list, arg, k) ==
    IF k > Len(list) THEN << >>
    ELSE (IF TrackMatches(list[k], arg) THEN << list[k] >> ELSE << >>)
         \o Matching(list, arg, k + 1)

plt_search_process(d, arg) ==
    [d EXCEPT !.plts[d.plt_curr + 1].search = Matching(d.plts[d.plt_curr + 1].main, arg, 1)]

\* The loop of beefmote_command_search over the search list from index i.
RECURSIVE SearchLines(_, _)
SearchLines(d, i) ==
    LET track == plt_get_item_for_idx(d, i, PL_SEARCH)
    IN IF track = NULL THEN << >>
       ELSE << "(" \o DecStr(i + 1) \o ")\t", TrackStr(track) >> \o SearchLines(d, i + 1)

beefmote_command_search(data, st) ==
    IF data = << >> THEN HandlerResult(UsageOut(BEEFMOTE_SEARCH), st)
    ELSE IF ~plt_get_curr(st.deadbeef) THEN HandlerResult(<< >>, st)
    ELSE LET d == plt_search_process(st.deadbeef, data[1])
             found == SearchLines(d, 0)
         IN [PlayerResult(<< "\n" >> \o found
                             \o (IF found # << >> THEN << "\n" >>
                                 ELSE << "(nothing was found)\n\n" >>),
                          d, st)
               EXCEPT !.refs = plt_unref(EachReleased(Acquire(st.refs, "plt", 1),
                                                      CurrLen(d, PL_SEARCH)))]

\* Faulty variant of beefmote_command_notify_playlistchanged: the text names
\* the value the flag had before the toggle.
beefmote_command_notify_playlistchanged_OldValue(data, st) ==
    LET flag == ~st.notify_playlistchanged
        msg == "\nNotification set to " \o (IF flag THEN "false.\n\n" ELSE "true.\n\n")
    IN [HandlerResult(<< msg >>, st) EXCEPT !.notify_playlistchanged = flag]

beefmote_command_notify_playlistchanged(data, st) ==
    LET flag == ~st.notify_playlistchanged
        msg == "\nNotification set to " \o (IF flag THEN "true.\n\n" ELSE "false.\n\n")
    IN [HandlerResult(<< msg >>, st) EXCEPT !.notify_playlistchanged = flag]

beefmote_command_notify_nowplaying(data, st) ==
    IF data = << >> THEN HandlerResult(UsageOut(BEEFMOTE_NOTIFY_NOW_PLAYING), st)
    ELSE IF data[1] = "true"
         THEN [HandlerResult(<< >>, st) EXCEPT !.notify_nowplaying = TRUE]
    ELSE IF data[1] = "false"
         THEN [HandlerResult(<< >>, st) EXCEPT !.notify_nowplaying = FALSE]
    ELSE HandlerResult(UsageOut(BEEFMOTE_NOTIFY_NOW_PLAYING), st)

beefmote_command_add_search_playbackqueue(data, st) ==
    LET d == st.deadbeef
    IN IF data = << >> THEN HandlerResult(UsageOut(BEEFMOTE_ADD_SEARCH_PLAYBACKQUEUE), st)
       ELSE LET track_index == strtol(data[1], 10)
            IN IF track_index = 0
               THEN HandlerResult(<< "\nInvalid search index\n\n" >>, st)
               ELSE IF ~plt_get_curr(d) THEN HandlerResult(<< >>, st)
               ELSE LET track == plt_get_item_for_idx(d, track_index - 1, PL_SEARCH)
                        \* pl_curr is acquired and not released on either path
                        held == Acquire(st.refs, "plt", 1)
                    IN IF track # NULL
                       THEN [PlayerResult(<< >>, playqueue_push(d, track), st)
                                EXCEPT !.refs = pl_item_unref(Acquire(held, "item", 1))]
                       ELSE [HandlerResult(<< "\nInvalid search index\n\n" >>, st)
                                EXCEPT !.refs = held]

beefmote_command_exit(data, st) ==
    PlayerResult(<< >>, sendmessage(st.deadbeef, "DB_EV_TERMINATE", 0), st)

\* beefmote_commands[i].execute(client_socket, arg): the handler registered
\* for entry i by beefmote_initialize_commands.
execute(i, data, st) ==
    CASE i = BEEFMOTE_HELP -> beefmote_command_help(data, st)
      [] i = BEEFMOTE_PLAYLISTS -> beefmote_command_playlists(data, st)
      [] i = BEEFMOTE_TRACKLIST -> beefmote_command_tracklist(data, st)
      [] i = BEEFMOTE_TRACKLIST_ADDRESS -> beefmote_command_tracklist_address(data, st)
      [] i = BEEFMOTE_TRACKCURR -> beefmote_command_trackcurr(data, st)
      [] i = BEEFMOTE_PLAY -> beefmote_command_play(data, st)
      [] i = BEEFMOTE_PLAY_SEARCH -> beefmote_command_play_search(data, st)
      [] i = BEEFMOTE_PLAY_ADDRESS -> beefmote_command_play_address(data, st)
      [] i = BEEFMOTE_RANDOM -> beefmote_command_random(data, st)
      [] i = BEEFMOTE_PLAY_RESUME -> beefmote_command_play_resume(data, st)
      [] i = BEEFMOTE_STOP_AFTER_CURRENT -> beefmote_command_stop_after_current(data, st)
      [] i = BEEFMOTE_STOP -> beefmote_command_stop(data, st)
      [] i = BEEFMOTE_PREVIOUS -> beefmote_command_previous(data, st)
      [] i = BEEFMOTE_NEXT -> beefmote_command_next(data, st)
      [] i = BEEFMOTE_VOLUME_UP -> beefmote_command_volume_up(data, st)
      [] i = BEEFMOTE_VOLUME_DOWN -> beefmote_command_volume_down(data, st)
      [] i = BEEFMOTE_SEEK_FORWARD -> beefmote_command_seek_forward(data, st)
      [] i = BEEFMOTE_SEEK_BACKWARD -> beefmote_command_seek_backward(data, st)
      [] i = BEEFMOTE_SEARCH -> beefmote_command_search(data, st)
      [] i = BEEFMOTE_NOTIFY_PLAYLISTCHANGED -> beefmote_command_notify_playlistchanged(data, st)
      [] i = BEEFMOTE_NOTIFY_NOW_PLAYING -> beefmote_command_notify_nowplaying(data, st)
      [] i = BEEFMOTE_ADD_SEARCH_PLAYBACKQUEUE -> beefmote_command_add_search_playbackqueue(data, st)
      [] i = BEEFMOTE_EXIT -> beefmote_command_exit(data, st)

InvalidMsg == "\nPlease type a valid command\n\n"

\* The dispatcher of beefmote_process_command, given the parser's result p:
\* scan the registry, run the handler of the first match, or write the
\* invalid-command message.
\* Faulty variant of DispatchCommand: an unknown token runs the help handler.
DispatchCommand_HelpsUnknown(p, st) ==
    LET i == MatchCommand(p.command)
    IN IF i # 0
       THEN [calls |-> << [i |-> i, arg |-> p.arg] >>] @@ execute(i, p.arg, st)
       ELSE [calls |-> << >>] @@ beefmote_command_help(p.arg, st)

DispatchCommand(p, st) ==
    LET i == MatchCommand(p.command)
    IN IF i # 0
       THEN [calls |-> << [i |-> i, arg |-> p.arg] >>] @@ execute(i, p.arg, st)
       ELSE [calls |-> << >>] @@ HandlerResult(<< InvalidMsg >>, st)

\* beefmote_process_command: the parser, then the dispatcher.
beefmote_process_command(command, st) ==
    DispatchCommand(ParseCommand(command), st)

\* The banner built at the top of beefmote_thread.
welcome_str ==
    "Hello! Welcome to Beefmote's server. Type \"" \o beefmote_commands[BEEFMOTE_HELP].name
        \o "\" for a list of available commands\n\n"

(***************************************************************************)
(* The client's side: the buffers a client sends, each one the result of   *)
(* one read() of the server.                                               *)
(***************************************************************************)
Lines == {"tc\n", "ntfy-nowplaying true\r\n", "ntfy-plchanged\n", "zzz\n"}

\* Lines built from their parts, for the parser: a token, what separates it
\* from the argument, an argument, a line ending.
MaxRun == 3
Tokens == {"vu", "ps", "zzz"}
Blanks == {" ", "\t", "\r", "\n", "\f"}
Args == {"10", "1 ", "a b"}
Endings == {"\r\n", "\n"}

RECURSIVE Spaces(_)
Spaces(n) == IF n = 0 THEN "" ELSE " " \o Spaces(n - 1)

\* Runs of spaces, possibly empty, and runs of two or more blanks.
SpaceRuns == {Spaces(n) : n \in 0..MaxRun}
WideRuns == {Spaces(n) : n \in 2..MaxRun} \cup {"\t ", " \t"}

LinesParse ==
    {T \o w \o A \o e : T \in Tokens, w \in Blanks \cup WideRuns, A \in Args, e \in Endings}
    \cup {T \o r \o e : T \in Tokens, r \in SpaceRuns, e \in Endings}

\* Tokens for the dispatcher: every registered name, each name with one more
\* character, every proper prefix of a name, a name in upper case and a word
\* that is no name; each sent alone and with an argument.
Names == {beefmote_initialize_commands[i].name : i \in 1..BEEFMOTE_COMMANDS_N}
NearNames ==
    Names
    \cup {n \o "x" : n \in Names}
    \cup UNION {{SubSeq(n, 1, k) : k \in 1..(Len(n) - 1)} : n \in Names}
    \cup {"P", "zzz"}
LinesDispatch == {t \o "\n" : t \in NearNames} \cup {t \o " 1\r\n" : t \in NearNames}

\* Arguments for the commands that take an index or a track address, each
\* with the number strtol reads from it, and the lines that carry them.
IndexArgs ==
    ("0" :> 0) @@ ("1" :> 1) @@ ("2" :> 2) @@ ("3" :> 3) @@ ("abc" :> 0) @@ ("2 " :> 2)
HandleArgs ==
    ("0x1" :> 1) @@ ("2" :> 2) @@ ("0x9" :> 9) @@ ("0" :> 0) @@ ("zzz" :> 0)
IndexCommands == {"pl", "ps", "aps", "p"}
LinesPlayer ==
    {c \o " " \o a \o "\n" : c \in IndexCommands, a \in DOMAIN IndexArgs}
    \cup {"pa " \o a \o "\r\n" : a \in DOMAIN HandleArgs}

\* Lines of the commands that take a step: alone, with a number (and the
\* number strtol reads from it) and with a word that is no number.
StepArgs == ("10" :> 10) @@ ("3 " :> 3) @@ ("-2" :> -2)
NonNumbers == {"abc", "x"}
StepCommands == {"vu", "vd", "sf", "sb"}
LinesStep ==
    {c \o "\n" : c \in StepCommands}
    \cup {c \o " " \o a \o "\n" : c \in StepCommands, a \in DOMAIN StepArgs \cup NonNumbers}

\* Lines for the notification flags: the toggle, the two settings of the
\* now-playing flag, and a command that touches neither flag.
ToggleSends == 3
LinesToggle ==
    {"ntfy-plchanged\n", "ntfy-nowplaying true\n", "ntfy-nowplaying false\r\n", "sf\n"}

\* Values of the configuration keys beefmote.ip and beefmote.port ("" for a
\* key that is not set), each with the address or the port it stands for.
ConfIPs == ("" :> << 0, 0, 0, 0 >>) @@ ("127.0.0.1" :> << 127, 0, 0, 1 >>)
               @@ ("10.0.0.2" :> << 10, 0, 0, 2 >>)
ConfPorts == ("" :> 49160) @@ ("8080" :> 8080) @@ ("49161" :> 49161)
Confs == {[ip |-> i, port |-> p] : i \in DOMAIN ConfIPs, p \in DOMAIN ConfPorts}

\* What one read() can deliver besides one complete line: two complete
\* lines at once, and the two parts of a line that arrives in two reads.
\* Each complete line stands with the token and the argument it holds.
CompleteLines ==
    ("vu\n" :> [command |-> "vu", arg |-> << >>])
    @@ ("vd 3\r\n" :> [command |-> "vd", arg |-> << "3" >>])
DoubleLines == {l1 \o l2 : l1 \in DOMAIN CompleteLines, l2 \in DOMAIN CompleteLines}
SplitLine == << "vu", " 10\n" >>
SplitTokens == << "vu", " 10" >>
LinesRead == DoubleLines \cup {SplitLine[1], SplitLine[2], "ntfy-plchanged\n"}

\* The commands that get playlists and tracks from the player, and the line
\* that switches a notification on.
LinesRefs == {"pl\n", "tl\n", "tla\n", "/ ti\n", "ps 1\n", "aps 1\n", "ntfy-plchanged\n"}

\* Lines that are empty or begin with a blank, and the same command alone.
EmptyLines == {"\n", "\r\n"}
LinesEdge == EmptyLines \cup {" h\n", "\th 1\n", "h\n"}

\* Buffers of BEEFMOTE_BUFSIZE bytes and about: a line of BEEFMOTE_BUFSIZE - 1
\* bytes, a line that fills the buffer, a line one byte longer, a word of
\* BEEFMOTE_BUFSIZE - 1 bytes with no line ending, and a full buffer whose
\* token ends early.
NearLine == Repeat("x", BEEFMOTE_BUFSIZE - 2) \o "\n"
FullLine == Repeat("x", BEEFMOTE_BUFSIZE - 1) \o "\n"
OverLine == Repeat("x", BEEFMOTE_BUFSIZE) \o "\n"
NearWord == Repeat("x", BEEFMOTE_BUFSIZE - 1)
FullEarly == "h\n\n" \o Repeat("x", BEEFMOTE_BUFSIZE - 3)
LinesFull == {NearLine, FullLine, OverLine, NearWord, FullEarly}

(***************************************************************************)
(* State.                                                                  *)
(***************************************************************************)
VARIABLES
    \* the plugin's globals
    beefmote_stopthread, beefmote_stopthread_mutex, beefmote_tid,
    beefmote_socket, beefmote_client_socket, beefmote_currtrack,
    beefmote_notify_playlistchanged, beefmote_notify_nowplaying,
    \* beefmote_thread: its position, its buffer, its locals rv (what select
    \* returned) and bytes_n (what read returned), and the write() calls the
    \* running handler has still to make
    tpc, beefmote_buffer, rv, bytes_n, todo,
    \* the host thread: its position, the writes the running callback has
    \* still to make, and the client_socket parameter of the running helper
    hpc, hq, harg,
    \* the process's open descriptors: descriptor -> 0 for the listening
    \* socket, the session's number for an accepted one
    fds,
    \* the clients: connections attempted and accepted so far, the bytes
    \* waiting on the open session, whether its peer has closed, buffers sent
    nconn, nacc, inbox, peer_closed, nsent,
    \* what beefmote_listen met and (listened) the configuration it read and
    \* the address it passed to bind, the events delivered so far, and how many
    \* connections, buffers and events the environment produces at most
    setup, listened, nev, budget,
    \* the command and arg of the running beefmote_process_command with the
    \* handler calls it has made, and the state of the player
    proc, deadbeef,
    \* the references to playlists (plt) and to tracks (item) that the plugin
    \* has been given by the player and has not released
    refs,
    \* history: what the session open on each descriptor has received, the
    \* successful reads of the open session, the descriptors plugin_stop
    \* closed, and the waits and dispatches begun since the shutdown flag
    \* was set
    wire, nread, stop_closed, waits_since, dispatch_since

globals == << beefmote_stopthread, beefmote_stopthread_mutex, beefmote_tid,
              beefmote_socket, beefmote_client_socket, beefmote_currtrack,
              beefmote_notify_playlistchanged, beefmote_notify_nowplaying >>
tvars == << tpc, beefmote_buffer, rv, bytes_n, todo >>
hvars == << hpc, hq, harg >>
cvars == << nconn, nacc, inbox, peer_closed, nsent >>
gvars == << wire, nread, stop_closed, waits_since, dispatch_since >>
vars == << globals, tvars, hvars, fds, cvars, setup, listened, nev, budget, beefmote_commands,
          gvars, proc, deadbeef, refs >>

\* The descriptors accept() can return.
ClientFds == (ListenFd + 1)..(ListenFd + MaxConns + 1)

\* The process lives: abort() has not been called and the task has not died
\* in a handler.  Every step of the process needs this.
Alive == hpc # "aborted" /\ tpc # "crashed"

(***************************************************************************)
(* The operating system.                                                   *)
(***************************************************************************)
IsOpen(fd) == fd \in DOMAIN fds
IsListening(fd) == IsOpen(fd) /\ fds[fd] = 0
IsSession(fd) == IsOpen(fd) /\ fds[fd] # 0

\* close(fd): EBADF, and nothing else, for a descriptor that is not open.
Closed(fd) == [d \in DOMAIN fds \ {fd} |-> fds[d]]

\* The descriptor accept() returns: the lowest one that is free.
FreeFd == Lowest({d \in ClientFds : ~IsOpen(d)})

\* write(fd, ...): the text reaches the session the descriptor is open on;
\* EBADF for a descriptor that is not open.
Written(fd, entry) ==
    IF IsSession(fd) THEN [wire EXCEPT ![fd] = Append(@, entry)] ELSE wire

\* The connections waiting in the listening socket's backlog.
Pending == nconn - nacc

(***************************************************************************)
(* Init: the plugin is loaded (beefmote_load), its statics zero.           *)
(***************************************************************************)
(***************************************************************************)
(* The address beefmote_listen builds.  servaddr is the struct sockaddr_in  *)
(* as bytes, in the layout of <netinet/in.h> on Linux: sin_family at       *)
(* offset 0 (two bytes, host order), sin_port at offset 2 (two bytes,      *)
(* network order), sin_addr at offset 4 (four bytes, network order).       *)
(***************************************************************************)
AF_INET == 2
INADDR_ANY == 0
BEEFMOTE_DEFAULT_PORT == 49160

\* memset(&servaddr, 0, sizeof(servaddr)), as far as sin_addr.
ZeroAddr == << 0, 0, 0, 0, 0, 0, 0, 0 >>

\* The bytes written at the offset off of the buffer buf.
Poke(buf, off, bytes) ==
    [k \in 1..Len(buf) |->
        IF k > off /\ k <= off + Len(bytes) THEN bytes[k - off] ELSE buf[k]]

\* htons and htonl: the bytes of a 16-bit and of a 32-bit number, the most
\* significant first.
htons(n) == << (n % 65536) \div 256, n % 256 >>
htonl(n) == << n \div 16777216, (n \div 65536) % 256, (n \div 256) % 256, n % 256 >>

\* inet_pton(AF_INET, src, dst): the four bytes of a dotted quad, or << >>
\* (return value 0, dst untouched) for a string that is none.
RECURSIVE Quad(_, _, _, _)
Quad(str, j, cur, acc) ==
    IF j >= Len(str)
    THEN IF cur # -1 /\ Len(acc) = 3 THEN Append(acc, cur) ELSE << >>
    ELSE IF DigitVal(At(str, j)) < 10
    THEN LET v == (IF cur = -1 THEN 0 ELSE cur) * 10 + DigitVal(At(str, j))
         IN IF v > 255 THEN << >> ELSE Quad(str, j + 1, v, acc)
    ELSE IF At(str, j) = "." /\ cur # -1 /\ Len(acc) < 3
    THEN Quad(str, j + 1, -1, Append(acc, cur))
    ELSE << >>

inet_pton(src) == Quad(src, 0, -1, << >>)

\* The servaddr beefmote_listen passes to bind, for the configuration
\* values ip_str and port_str ("" for a key that is not set).  inet_pton is
\* given &(servaddr), the start of the struct, as its destination.
BuildServaddr(ip_str, port_str) ==
    LET config_ip_found == ip_str # ""
        config_port_found == port_str # ""
        s1 == IF config_ip_found THEN Poke(ZeroAddr, 0, inet_pton(ip_str)) ELSE ZeroAddr
        s2 == IF config_port_found THEN Poke(s1, 2, htons(strtol(port_str, 10))) ELSE s1
        s3 == Poke(s2, 0, << AF_INET, 0 >>)
        s4 == IF ~config_ip_found THEN Poke(s3, 4, htonl(INADDR_ANY)) ELSE s3
    IN IF ~config_port_found THEN Poke(s4, 2, htons(BEEFMOTE_DEFAULT_PORT)) ELSE s4

\* The fields of a servaddr.
sin_port(sa) == sa[3] * 256 + sa[4]
sin_addr(sa) == SubSeq(sa, 5, 8)

\* beefmote_listen has not been called, or socket() failed before bind.
NoListen == [ip_str |-> "", port_str |-> "", servaddr |-> << >>]

\* The host's configuration with neither beefmote.ip nor beefmote.port set
\* (conf_get_str_fast then yields its default, "").
NoConf == [ip |-> "", port |-> ""]

\* No call of beefmote_process_command is running.
NoProc == [command |-> "", arg |-> << >>, calls |-> << >>, crashed |-> FALSE]

\* A player with one playlist of the given tracks, stopped, nothing searched.
Player(tracks) ==
    [plts |-> << [main |-> tracks, search |-> << >>] >>,
     plt_curr |-> 0,
     loaded |-> {tracks[k] : k \in 1..Len(tracks)},
     msgs |-> << >>,
     queue |-> << >>,
     playing |-> FALSE,
     volume |-> 0,
     volume_sets |-> 0,
     pos |-> 0,
     pos_sets |-> 0,
     stop_after_current |-> 0]

Loaded ==
    /\ refs = [plt |-> 0, item |-> 0]
    /\ beefmote_commands = [i \in 1..BEEFMOTE_COMMANDS_N |-> beefmote_command_new("", "")]
    /\ beefmote_stopthread = 0
    /\ beefmote_stopthread_mutex = "none"
    /\ beefmote_tid = 0
    /\ beefmote_socket = 0
    /\ beefmote_client_socket = 0
    /\ beefmote_currtrack = NULL
    /\ beefmote_notify_playlistchanged = FALSE
    /\ beefmote_notify_nowplaying = FALSE
    /\ tpc = "none"
    /\ beefmote_buffer = ""
    /\ rv = 0
    /\ bytes_n = 0
    /\ todo = << >>
    /\ hpc = "loaded"
    /\ hq = << >>
    /\ harg = 0
    /\ fds = << >>
    /\ nconn = 0
    /\ nacc = 0
    /\ inbox = ""
    /\ peer_closed = FALSE
    /\ nsent = 0
    /\ setup = "none"
    /\ listened = NoListen
    /\ nev = 0
    /\ wire = [d \in ClientFds |-> << >>]
    /\ nread = 0
    /\ stop_closed = {}
    /\ waits_since = 0
    /\ dispatch_since = 0
    /\ proc = NoProc

Init ==
    /\ Loaded
    /\ budget = [conns |-> MaxConns, sends |-> MaxSends, events |-> MaxEvents, confs |-> {NoConf},
                 lines |-> Lines]
    /\ deadbeef = Player(<< 1 >>)

\* One client that sends one line, drawn from the lines built for the parser
\* and the lines that switch the notifications on.
InitParse ==
    /\ Loaded
    /\ budget = [conns |-> 1, sends |-> 1, events |-> MaxEvents, confs |-> {NoConf},
                 lines |-> LinesParse \cup Lines]
    /\ deadbeef = Player(<< 1 >>)

\* One client that sends one line, drawn from the lines built for the
\* dispatcher.
InitDispatch ==
    /\ Loaded
    /\ budget = [conns |-> 1, sends |-> 1, events |-> MaxEvents, confs |-> {NoConf},
                 lines |-> LinesDispatch]
    /\ deadbeef = Player(<< 1 >>)

\* The players a session of index commands starts with: one playlist of one
\* track; one playlist of two tracks, the second found by the last search;
\* two playlists; no playlist at all (and so no current playlist).
Players ==
    {Player(<< 1 >>),
     [Player(<< 1, 2 >>) EXCEPT !.plts[1].search = << 2 >>],
     [Player(<< 1, 2 >>) EXCEPT
         !.plts = << [main |-> << 1 >>, search |-> << 1 >>],
                     [main |-> << 2 >>, search |-> << >>] >>],
     [Player(<< >>) EXCEPT !.plts = << >>, !.plt_curr = -1]}

\* One client that sends one index command, or a line that switches the
\* notifications on, to one of the players.
InitPlayer ==
    /\ Loaded
    /\ budget = [conns |-> 1, sends |-> 1, events |-> MaxEvents, confs |-> {NoConf},
                 lines |-> LinesPlayer \cup Lines]
    /\ deadbeef \in Players

\* One client that sends one line of a command that takes a step, or a line
\* that switches the notifications on.
InitStep ==
    /\ Loaded
    /\ budget = [conns |-> 1, sends |-> 1, events |-> MaxEvents, confs |-> {NoConf},
                 lines |-> LinesStep \cup Lines]
    /\ deadbeef = Player(<< 1 >>)

\* One client that sends several lines about the notification flags.
InitToggle ==
    /\ Loaded
    /\ budget = [conns |-> 1, sends |-> ToggleSends, events |-> MaxEvents, confs |-> {NoConf},
                 lines |-> LinesToggle]
    /\ deadbeef = Player(<< 1 >>)

\* One client that sends one line, to a server started under any of the
\* configurations.
InitListen ==
    /\ Loaded
    /\ budget = [conns |-> 1, sends |-> 1, events |-> MaxEvents, confs |-> Confs,
                 lines |-> Lines]
    /\ deadbeef = Player(<< 1 >>)

\* One client whose reads deliver two lines at once or parts of a line.
InitRead ==
    /\ Loaded
    /\ budget = [conns |-> 1, sends |-> SessionSends, events |-> MaxEvents,
                 confs |-> {NoConf}, lines |-> LinesRead]
    /\ deadbeef = Player(<< 1 >>)

\* One client that sends one line that is empty or begins with a blank.
InitEdge ==
    /\ Loaded
    /\ budget = [conns |-> 1, sends |-> 1, events |-> MaxEvents, confs |-> {NoConf},
                 lines |-> LinesEdge \cup Lines]
    /\ deadbeef = Player(<< 1 >>)

\* One client that sends one buffer of about BEEFMOTE_BUFSIZE bytes.
InitFull ==
    /\ Loaded
    /\ budget = [conns |-> 1, sends |-> 1, events |-> MaxEvents, confs |-> {NoConf},
                 lines |-> LinesFull \cup Lines]
    /\ deadbeef = Player(<< 1 >>)

\* One client that sends two of the commands that get playlists and tracks
\* from the player.
InitRefs ==
    /\ Loaded
    /\ budget = [conns |-> 1, sends |-> SessionSends, events |-> MaxEvents,
                 confs |-> {NoConf}, lines |-> LinesRefs]
    /\ deadbeef = Player(<< 1 >>)

\* One client that sends several buffers.
\* Two connections and two lines between them, so that a later session reads
\* after an earlier one has dispatched.
LinesAgain == {"ntfy-plchanged\n", "tc\n"}
InitAgain ==
    /\ Loaded
    /\ budget = [conns |-> MaxConns, sends |-> SessionSends, events |-> MaxEvents,
                 confs |-> {NoConf}, lines |-> LinesAgain]
    /\ deadbeef = Player(<< 1 >>)

InitSession ==
    /\ Loaded
    /\ budget = [conns |-> 1, sends |-> SessionSends, events |-> MaxEvents, confs |-> {NoConf},
                 lines |-> Lines]
    /\ deadbeef = Player(<< 1 >>)

(***************************************************************************)
(* plugin_start, run by the host thread before the background task exists. *)
(***************************************************************************)
ListenOutcomes == {"ok", "socket_failed", "bind_failed", "listen_failed"}

\* Faulty variant of beefmote_listen: after a failed bind() the descriptor is
\* neither closed nor forgotten.
beefmote_listen_KeepsDescriptor(outcome, conf) ==
    LET sa == BuildServaddr(conf.ip, conf.port)
    IN CASE outcome = "socket_failed" ->
              [beefmote_socket |-> NoSocket, fds |-> fds, servaddr |-> << >>]
         [] outcome = "bind_failed" ->
              [beefmote_socket |-> ListenFd, fds |-> (ListenFd :> 0) @@ fds, servaddr |-> sa]
         [] outcome = "listen_failed" ->
              [beefmote_socket |-> NoSocket, fds |-> fds, servaddr |-> sa]
         [] outcome = "ok" ->
              [beefmote_socket |-> ListenFd, fds |-> (ListenFd :> 0) @@ fds, servaddr |-> sa]

\* beefmote_listen: the value it leaves in beefmote_socket, the open
\* descriptors and the address it passed to bind, for each way socket(),
\* bind() and listen() can go.  On a bind or listen failure the descriptor
\* is closed again and forgotten.
beefmote_listen(outcome, conf) ==
    LET sa == BuildServaddr(conf.ip, conf.port)
    IN CASE outcome = "socket_failed" ->
              [beefmote_socket |-> NoSocket, fds |-> fds, servaddr |-> << >>]
         [] outcome = "bind_failed" ->
              [beefmote_socket |-> NoSocket, fds |-> fds, servaddr |-> sa]
         [] outcome = "listen_failed" ->
              [beefmote_socket |-> NoSocket, fds |-> fds, servaddr |-> sa]
         [] outcome = "ok" ->
              [beefmote_socket |-> ListenFd, fds |-> (ListenFd :> 0) @@ fds, servaddr |-> sa]

\* thread_start yields the task's id, or 0 when no task could be created.
plugin_start ==
    /\ Alive /\ hpc = "loaded"
    /\ \E outcome \in ListenOutcomes, tid \in {0, 1}, conf \in budget.confs :
          LET l == beefmote_listen(outcome, conf)
          IN /\ beefmote_stopthread' = 0
             /\ beefmote_currtrack' = NULL
             /\ beefmote_notify_playlistchanged' = FALSE
             /\ beefmote_notify_nowplaying' = FALSE
             /\ beefmote_client_socket' = NoSocket
             /\ beefmote_stopthread_mutex' = "free"
             /\ beefmote_commands' = beefmote_initialize_commands
             /\ beefmote_socket' = l.beefmote_socket
             /\ fds' = l.fds
             /\ setup' = outcome
             /\ listened' = [ip_str |-> conf.ip, port_str |-> conf.port,
                             servaddr |-> l.servaddr]
             /\ beefmote_tid' = tid
             /\ tpc' = IF tid # 0 THEN "outer_lock" ELSE "none"
    /\ hpc' = "idle"
    /\ UNCHANGED << beefmote_buffer, rv, bytes_n, todo, hq, harg, cvars, nev, gvars, budget, proc, deadbeef, refs >>

(***************************************************************************)
(* beefmote_command_new as a call on the array: one registration.          *)
(***************************************************************************)
\* What strcpy of a name of BEEFMOTE_STR_MAXLENGTH or more bytes into
\* char name[BEEFMOTE_STR_MAXLENGTH] can do: the bytes run over the fields
\* that follow and the call returns, or a fortified strcpy ends the process.
OverflowOutcomes == {"overflow", "crash"}

\* assert(comm_id >= 0 && comm_id < BEEFMOTE_COMMANDS_N);
\* strcpy(name, comm_name); name_len = strlen(comm_name); strcpy(help, ...).
\* The identifiers are 1-based here, and comm_name and comm_help are strings.
Register(commands, comm_id, comm_name, comm_help, ub) ==
    IF comm_id < 1 \/ comm_id > BEEFMOTE_COMMANDS_N
    THEN [commands |-> commands, aborted |-> TRUE]
    ELSE IF Len(comm_name) >= BEEFMOTE_STR_MAXLENGTH /\ ub = "crash"
    THEN [commands |-> commands, aborted |-> TRUE]
    ELSE [commands |-> [commands EXCEPT ![comm_id] =
                           beefmote_command_new(comm_name, comm_help)],
          aborted |-> FALSE]

\* Identifiers and names to register: identifiers inside and outside the
\* enumeration, short names, and a name of BEEFMOTE_STR_MAXLENGTH bytes.
LongName == Repeat("x", BEEFMOTE_STR_MAXLENGTH)
RegIds == {0, BEEFMOTE_HELP, BEEFMOTE_PLAYLISTS, BEEFMOTE_TRACKLIST, BEEFMOTE_COMMANDS_N + 1}
RegNames == {"h", "pl", "tl", LongName}

\* One call of beefmote_command_new, made while the plugin is being set up.
RegisterCommand ==
    /\ hpc = "loaded"
    /\ \E comm_id \in RegIds, comm_name \in RegNames, ub \in OverflowOutcomes :
          \E r \in {Register(beefmote_commands, comm_id, comm_name, "help", ub)} :
              /\ beefmote_commands' = r.commands
              /\ hpc' = IF r.aborted THEN "aborted" ELSE "loaded"
    /\ UNCHANGED << globals, tvars, hq, harg, fds, cvars, setup, listened, nev, gvars, budget,
                    proc, deadbeef, refs >>

(***************************************************************************)
(* The snapshot src/server/src/beefmote.c: full-word names, and a          *)
(* dispatcher that is given the bytes read as they are.                    *)
(***************************************************************************)
\* The names of beefmote_initialize_commands, in the order of the snapshot's
\* enum BEEFMOTE_COMMANDS (1-based here); name_len is strlen(name).
snapshot_commands ==
    << "help", "show-tracks", "play", "random", "pause", "stop-aftercurr", "stop",
       "previous", "next", "volume-up", "volume-down", "seek-forward",
       "seek-backward", "exit" >>

\* for (i...) if (strncmp(name, command, name_len) == 0) { execute; return; }
\* The result is the entry whose handler runs, 0 when the loop ends.
RECURSIVE SnapshotMatchFrom(_, _)
SnapshotMatchFrom(command, i) ==
    IF i > Len(snapshot_commands) THEN 0
    ELSE IF strncmp(snapshot_commands[i], command, Len(snapshot_commands[i])) = 0 THEN i
    ELSE SnapshotMatchFrom(command, i + 1)

\* Lines for the snapshot: each name alone and with more characters after it.
Extensions == {"x", "now"}
LinesSnapshot ==
    {snapshot_commands[i] \o x \o e :
        i \in 1..Len(snapshot_commands), x \in Extensions \cup {""}, e \in Endings}

\* read() has put a line into the buffer.
SnapshotRead ==
    /\ hpc = "loaded" /\ beefmote_buffer = ""
    /\ \E line \in LinesSnapshot : beefmote_buffer' = line
    /\ UNCHANGED << globals, tpc, rv, bytes_n, todo, hvars, fds, cvars, setup, listened, nev,
                    gvars, budget, beefmote_commands, proc, deadbeef, refs >>

\* beefmote_process_command(client_socket, beefmote_buffer) of the snapshot:
\* the handler of the matching entry is called with NULL, or the
\* invalid-command message is written.
SnapshotProcess ==
    /\ hpc = "loaded" /\ beefmote_buffer # "" /\ proc = NoProc
    /\ \E i \in {SnapshotMatchFrom(beefmote_buffer, 1)} :
          /\ proc' = [command |-> beefmote_buffer, arg |-> << >>, crashed |-> FALSE,
                      calls |-> IF i # 0 THEN << [i |-> i, arg |-> << >>] >> ELSE << >>]
          /\ todo' = IF i # 0 THEN << >> ELSE << InvalidMsg >>
    /\ UNCHANGED << globals, tpc, beefmote_buffer, rv, bytes_n, hvars, fds, cvars, setup,
                    listened, nev, gvars, budget, beefmote_commands, deadbeef, refs >>

(***************************************************************************)
(* beefmote_thread.                                                        *)
(***************************************************************************)
\* A bounded wait (sleep or select with a timeout) begun by the task.
CountWait ==
    waits_since' = IF beefmote_stopthread = 1 /\ waits_since < 2
                   THEN waits_since + 1 ELSE waits_since

\* for (;;) { mutex_lock
ThreadOuterLock ==
    /\ Alive /\ tpc = "outer_lock"
    /\ beefmote_stopthread_mutex = "free"
    /\ beefmote_stopthread_mutex' = "thread"
    /\ tpc' = "outer_test"
    /\ UNCHANGED << beefmote_stopthread, beefmote_tid, beefmote_socket,
                    beefmote_client_socket, beefmote_currtrack,
                    beefmote_notify_playlistchanged, beefmote_notify_nowplaying,
                    beefmote_buffer, rv, bytes_n, todo, hvars, fds, cvars, setup, listened, nev, gvars, budget, beefmote_commands, proc, deadbeef, refs >>

\* if (beefmote_stopthread == 1) { unlock; return; } unlock;
ThreadOuterTest ==
    /\ Alive /\ tpc = "outer_test"
    /\ beefmote_stopthread_mutex' = "free"
    /\ tpc' = IF beefmote_stopthread = 1 THEN "exited" ELSE "outer_socket"
    /\ UNCHANGED << beefmote_stopthread, beefmote_tid, beefmote_socket,
                    beefmote_client_socket, beefmote_currtrack,
                    beefmote_notify_playlistchanged, beefmote_notify_nowplaying,
                    beefmote_buffer, rv, bytes_n, todo, hvars, fds, cvars, setup, listened, nev, gvars, budget, beefmote_commands, proc, deadbeef, refs >>

\* Faulty variant of ThreadSocketTest: the test of beefmote_socket is missing.
ThreadSocketTest_NoTest ==
    /\ Alive /\ tpc = "outer_socket"
    /\ tpc' = "accept"
    /\ UNCHANGED << globals, beefmote_buffer, rv, bytes_n, todo, hvars, fds, cvars, setup, listened, nev, gvars, budget, beefmote_commands, proc, deadbeef, refs >>

\* if (beefmote_socket == -1) continue;
ThreadSocketTest ==
    /\ Alive /\ tpc = "outer_socket"
    /\ tpc' = IF beefmote_socket = NoSocket THEN "outer_lock" ELSE "accept"
    /\ UNCHANGED << globals, beefmote_buffer, rv, bytes_n, todo, hvars, fds, cvars, setup, listened, nev, gvars, budget, beefmote_commands, proc, deadbeef, refs >>

\* beefmote_client_socket = accept(beefmote_socket, ...): the socket is
\* non-blocking, so with nothing pending (or a descriptor that is no longer
\* open) accept returns -1 at once.
ThreadAccept ==
    /\ Alive /\ tpc = "accept"
    /\ IF IsListening(beefmote_socket) /\ Pending > 0
       THEN /\ beefmote_client_socket' = FreeFd
            /\ fds' = (FreeFd :> (nacc + 1)) @@ fds
            /\ nacc' = nacc + 1
            /\ inbox' = ""
            /\ peer_closed' = FALSE
            /\ nread' = 0
            /\ wire' = [wire EXCEPT ![FreeFd] = << >>]
            /\ tpc' = "welcome"
       ELSE /\ beefmote_client_socket' = -1
            /\ tpc' = "sleep"
            /\ UNCHANGED << fds, nacc, inbox, peer_closed, nread, wire, budget, beefmote_commands, proc, deadbeef, refs >>
    /\ UNCHANGED << beefmote_stopthread, beefmote_stopthread_mutex, beefmote_tid,
                    beefmote_socket, beefmote_currtrack,
                    beefmote_notify_playlistchanged, beefmote_notify_nowplaying,
                    beefmote_buffer, rv, bytes_n, todo, hvars, nconn, nsent, setup, listened, nev,
                    stop_closed, waits_since, dispatch_since, budget, beefmote_commands, proc, deadbeef, refs >>

\* Faulty variant of ThreadSleep: after the sleep the task retries accept()
\* without going round the loop that tests the flag.
ThreadSleep_RetriesAccept ==
    /\ Alive /\ tpc = "sleep"
    /\ CountWait
    /\ tpc' = "accept"
    /\ UNCHANGED << globals, beefmote_buffer, rv, bytes_n, todo, hvars, fds, cvars, setup, listened, nev,
                    wire, nread, stop_closed, dispatch_since, budget, beefmote_commands, proc, deadbeef, refs >>

\* sleep(BEEFMOTE_WAIT_CLIENT); continue;
ThreadSleep ==
    /\ Alive /\ tpc = "sleep"
    /\ CountWait
    /\ tpc' = "outer_lock"
    /\ UNCHANGED << globals, beefmote_buffer, rv, bytes_n, todo, hvars, fds, cvars, setup, listened, nev,
                    wire, nread, stop_closed, dispatch_since, budget, beefmote_commands, proc, deadbeef, refs >>

\* write(beefmote_client_socket, welcome_str, welcome_len);
ThreadWelcome ==
    /\ Alive /\ tpc = "welcome"
    /\ wire' = Written(beefmote_client_socket,
                       [by |-> "banner", rd |-> 0, txt |-> welcome_str])
    /\ tpc' = "inner_lock"
    /\ UNCHANGED << globals, beefmote_buffer, rv, bytes_n, todo, hvars, fds, cvars, setup, listened, nev,
                    nread, stop_closed, waits_since, dispatch_since, budget, beefmote_commands, proc, deadbeef, refs >>

\* for (;;) { mutex_lock
ThreadInnerLock ==
    /\ Alive /\ tpc = "inner_lock"
    /\ beefmote_stopthread_mutex = "free"
    /\ beefmote_stopthread_mutex' = "thread"
    /\ tpc' = "inner_test"
    /\ UNCHANGED << beefmote_stopthread, beefmote_tid, beefmote_socket,
                    beefmote_client_socket, beefmote_currtrack,
                    beefmote_notify_playlistchanged, beefmote_notify_nowplaying,
                    beefmote_buffer, rv, bytes_n, todo, hvars, fds, cvars, setup, listened, nev, gvars, budget, beefmote_commands, proc, deadbeef, refs >>

\* Faulty variant of ThreadInnerTest: the inner loop does not test the flag.
ThreadInnerTest_IgnoresFlag ==
    /\ Alive /\ tpc = "inner_test"
    /\ beefmote_stopthread_mutex' = "free"
    /\ tpc' = "select"
    /\ UNCHANGED << beefmote_stopthread, beefmote_tid, beefmote_socket,
                    beefmote_client_socket, beefmote_currtrack,
                    beefmote_notify_playlistchanged, beefmote_notify_nowplaying,
                    beefmote_buffer, rv, bytes_n, todo, hvars, fds, cvars, setup, listened, nev, gvars, budget, beefmote_commands, proc, deadbeef, refs >>

\* Faulty variant of ThreadInnerTest: the returning path keeps the mutex.
ThreadInnerTest_ReturnsLocked ==
    /\ Alive /\ tpc = "inner_test"
    /\ beefmote_stopthread_mutex' = IF beefmote_stopthread = 1 THEN "thread" ELSE "free"
    /\ tpc' = IF beefmote_stopthread = 1 THEN "stop_close" ELSE "select"
    /\ UNCHANGED << beefmote_stopthread, beefmote_tid, beefmote_socket,
                    beefmote_client_socket, beefmote_currtrack,
                    beefmote_notify_playlistchanged, beefmote_notify_nowplaying,
                    beefmote_buffer, rv, bytes_n, todo, hvars, fds, cvars, setup, listened, nev, gvars, budget, beefmote_commands, proc, deadbeef, refs >>

\* if (beefmote_stopthread == 1) { unlock; close; ...; return; } unlock;
ThreadInnerTest ==
    /\ Alive /\ tpc = "inner_test"
    /\ beefmote_stopthread_mutex' = "free"
    /\ tpc' = IF beefmote_stopthread = 1 THEN "stop_close" ELSE "select"
    /\ UNCHANGED << beefmote_stopthread, beefmote_tid, beefmote_socket,
                    beefmote_client_socket, beefmote_currtrack,
                    beefmote_notify_playlistchanged, beefmote_notify_nowplaying,
                    beefmote_buffer, rv, bytes_n, todo, hvars, fds, cvars, setup, listened, nev, gvars, budget, beefmote_commands, proc, deadbeef, refs >>

\* Faulty variant of ThreadClose: the session's descriptor is not closed.
ThreadClose_Leaks(at, next) ==
    /\ Alive /\ tpc = at
    /\ inbox' = ""
    /\ peer_closed' = FALSE
    /\ tpc' = next
    /\ UNCHANGED << globals, beefmote_buffer, rv, bytes_n, todo, hvars, fds, nconn, nacc, nsent, setup, listened,
                    nev, wire, nread, stop_closed, waits_since, dispatch_since, budget, beefmote_commands, proc, deadbeef, refs >>

\* close(beefmote_client_socket);  (shutdown observed, or after an error)
ThreadClose(at, next) ==
    /\ Alive /\ tpc = at
    /\ fds' = Closed(beefmote_client_socket)
    /\ inbox' = ""
    /\ peer_closed' = FALSE
    /\ tpc' = next
    /\ UNCHANGED << globals, beefmote_buffer, rv, bytes_n, todo, hvars, nconn, nacc, nsent, setup, listened,
                    nev, wire, nread, stop_closed, waits_since, dispatch_since, budget, beefmote_commands, proc, deadbeef, refs >>

\* beefmote_client_socket = -1; then return (shutdown) or break (error)
ThreadReset(at, next) ==
    /\ Alive /\ tpc = at
    /\ beefmote_client_socket' = -1
    /\ tpc' = next
    /\ UNCHANGED << beefmote_stopthread, beefmote_stopthread_mutex, beefmote_tid,
                    beefmote_socket, beefmote_currtrack,
                    beefmote_notify_playlistchanged, beefmote_notify_nowplaying,
                    beefmote_buffer, rv, bytes_n, todo, hvars, fds, cvars, setup, listened, nev, gvars, budget, beefmote_commands, proc, deadbeef, refs >>

ThreadStopClose == ThreadClose("stop_close", "stop_reset")
ThreadStopReset == ThreadReset("stop_reset", "exited")
ThreadErrorClose == ThreadClose("error_close", "error_reset")
ThreadErrorReset == ThreadReset("error_reset", "outer_lock")

\* Faulty variant of ThreadSelect: a timeout ends the session.
ThreadSelect_TimeoutCloses ==
    /\ Alive /\ tpc = "select"
    /\ CountWait
    /\ \/ /\ rv' = -1
          /\ tpc' = "error_close"
       \/ /\ inbox = "" /\ ~peer_closed
          /\ rv' = 0
          /\ tpc' = "error_close"
       \/ /\ inbox # "" \/ peer_closed
          /\ rv' = 1
          /\ tpc' = "read"
    /\ UNCHANGED << globals, beefmote_buffer, bytes_n, todo, hvars, fds, cvars, setup, listened, nev,
                    wire, nread, stop_closed, dispatch_since, budget, beefmote_commands, proc, deadbeef, refs >>

\* rv = select(beefmote_client_socket + 1, &readfds, NULL, NULL, &timeout):
\* -1 on an error, 0 when the timeout passes with nothing to read, and 1 when
\* the socket is readable (bytes are waiting, or the peer has closed).
ThreadSelect ==
    /\ Alive /\ tpc = "select"
    /\ CountWait
    /\ \/ /\ rv' = -1
          /\ tpc' = "error_close"
       \/ /\ inbox = "" /\ ~peer_closed
          /\ rv' = 0
          /\ tpc' = "inner_lock"
       \/ /\ inbox # "" \/ peer_closed
          /\ rv' = 1
          /\ tpc' = "read"
    /\ UNCHANGED << globals, beefmote_buffer, bytes_n, todo, hvars, fds, cvars, setup, listened, nev,
                    wire, nread, stop_closed, dispatch_since, budget, beefmote_commands, proc, deadbeef, refs >>

\* bytes_n = read(beefmote_client_socket, beefmote_buffer, BEEFMOTE_BUFSIZE):
\* negative on an error, 0 when the peer has closed, else the bytes waiting.
ThreadRead ==
    /\ Alive /\ tpc = "read"
    /\ \/ /\ bytes_n' = -1
          /\ tpc' = "error_close"
          /\ UNCHANGED << beefmote_buffer, inbox, nread >>
       \/ /\ inbox = "" /\ peer_closed
          /\ bytes_n' = 0
          /\ tpc' = "error_close"
          /\ UNCHANGED << beefmote_buffer, inbox, nread >>
       \/ /\ inbox # ""
          /\ \E n \in {IF Len(inbox) > BEEFMOTE_BUFSIZE THEN BEEFMOTE_BUFSIZE ELSE Len(inbox)} :
                /\ bytes_n' = n
                /\ beefmote_buffer' = SubSeq(inbox, 1, n)
                                        \o SubSeq(beefmote_buffer, n + 1, Len(beefmote_buffer))
                /\ inbox' = SubSeq(inbox, n + 1, Len(inbox))
          /\ nread' = nread + 1
          /\ tpc' = "process"
    /\ UNCHANGED << globals, rv, todo, hvars, fds, nconn, nacc, peer_closed, nsent,
                    setup, listened, nev, wire, stop_closed, waits_since, dispatch_since, budget, beefmote_commands, proc, deadbeef, refs >>

\* The server state a handler reads.
ServerState ==
    [notify_playlistchanged |-> beefmote_notify_playlistchanged,
     notify_nowplaying |-> beefmote_notify_nowplaying,
     currtrack |-> beefmote_currtrack,
     deadbeef |-> deadbeef,
     refs |-> refs]

\* What reading freed memory can do to the handler that does it.
UBOutcomes == {"reads_freed", "crash"}

\* Where the task goes when the handler has made its last write.
AfterWrites(out, crashed) ==
    IF out # << >> THEN "respond"
    ELSE IF crashed THEN "crashed"
    ELSE "memset"

\* beefmote_process_command(beefmote_client_socket, beefmote_buffer): the
\* parser and the dispatcher run; the write() calls the handler makes follow
\* one by one.
ThreadProcess ==
    /\ Alive /\ tpc = "process"
    /\ \E p \in {ParseCommand(beefmote_buffer)}, ub \in UBOutcomes,
          over \in IF ParseOverrun(beefmote_buffer) THEN OverrunOutcomes ELSE {"inside"} :
       \E r \in {IF over = "crash"
                 THEN [calls |-> << >>]
                      @@ [HandlerResult(<< >>, [ub |-> ub] @@ ServerState) EXCEPT !.crashed = TRUE]
                 ELSE DispatchCommand(p, [ub |-> ub] @@ ServerState)} :
          /\ beefmote_notify_playlistchanged' = r.notify_playlistchanged
          /\ beefmote_notify_nowplaying' = r.notify_nowplaying
          /\ deadbeef' = r.deadbeef
          /\ refs' = r.refs
          /\ proc' = [command |-> p.command, arg |-> p.arg,
                      calls |-> r.calls, crashed |-> r.crashed]
          /\ todo' = r.out
          /\ tpc' = AfterWrites(r.out, r.crashed)
    /\ dispatch_since' = IF beefmote_stopthread = 1 /\ dispatch_since < 2
                         THEN dispatch_since + 1 ELSE dispatch_since
    /\ UNCHANGED << beefmote_stopthread, beefmote_stopthread_mutex, beefmote_tid,
                    beefmote_socket, beefmote_client_socket, beefmote_currtrack,
                    beefmote_buffer, rv, bytes_n, hvars, fds, cvars, setup, listened, nev,
                    wire, nread, stop_closed, waits_since, budget, beefmote_commands >>

\* Faulty variant of ThreadRespond: the handler returns to the loop after its
\* first write and leaves the others outstanding.
ThreadRespond_Defers ==
    /\ Alive /\ tpc = "respond"
    /\ wire' = Written(beefmote_client_socket,
                       [by |-> "command", rd |-> nread, txt |-> Head(todo)])
    /\ todo' = Tail(todo)
    /\ tpc' = "memset"
    /\ UNCHANGED << globals, beefmote_buffer, rv, bytes_n, hvars, fds, cvars, setup, listened, nev,
                    nread, stop_closed, waits_since, dispatch_since, budget, beefmote_commands, proc, deadbeef, refs >>

\* One write() of the running handler (or of the invalid-command reply).
ThreadRespond ==
    /\ Alive /\ tpc = "respond"
    /\ wire' = Written(beefmote_client_socket,
                       [by |-> "command", rd |-> nread, txt |-> Head(todo)])
    /\ todo' = Tail(todo)
    /\ tpc' = AfterWrites(Tail(todo), proc.crashed)
    /\ UNCHANGED << globals, beefmote_buffer, rv, bytes_n, hvars, fds, cvars, setup, listened, nev,
                    nread, stop_closed, waits_since, dispatch_since, budget, beefmote_commands, proc, deadbeef, refs >>

\* Faulty variant of ThreadMemset: the round of the inner loop clears the flag.
ThreadMemset_ClearsFlag ==
    /\ Alive /\ tpc = "memset"
    /\ beefmote_buffer' = ""
    /\ proc' = NoProc
    /\ beefmote_stopthread' = 0
    /\ tpc' = "inner_lock"
    /\ UNCHANGED << beefmote_stopthread_mutex, beefmote_tid, beefmote_socket,
                    beefmote_client_socket, beefmote_currtrack,
                    beefmote_notify_playlistchanged, beefmote_notify_nowplaying,
                    rv, bytes_n, todo, hvars, fds, cvars, setup, listened, nev, gvars, budget, beefmote_commands, deadbeef, refs >>

\* Faulty variant of ThreadMemset: the buffer keeps the bytes of the command.
ThreadMemset_KeepsBuffer ==
    /\ Alive /\ tpc = "memset"
    /\ proc' = NoProc
    /\ tpc' = "inner_lock"
    /\ UNCHANGED << globals, beefmote_buffer, rv, bytes_n, todo, hvars, fds, cvars, setup,
                    listened, nev, gvars, budget, beefmote_commands, deadbeef, refs >>

\* memset(beefmote_buffer, 0, BEEFMOTE_BUFSIZE); and round the inner loop
ThreadMemset ==
    /\ Alive /\ tpc = "memset"
    /\ beefmote_buffer' = ""
    /\ proc' = NoProc
    /\ tpc' = "inner_lock"
    /\ UNCHANGED << globals, rv, bytes_n, todo, hvars, fds, cvars, setup, listened, nev, gvars, budget, beefmote_commands, deadbeef, refs >>

beefmote_thread ==
    \/ ThreadOuterLock \/ ThreadOuterTest \/ ThreadSocketTest \/ ThreadAccept
    \/ ThreadSleep \/ ThreadWelcome \/ ThreadInnerLock \/ ThreadInnerTest
    \/ ThreadStopClose \/ ThreadStopReset \/ ThreadErrorClose \/ ThreadErrorReset
    \/ ThreadSelect \/ ThreadRead \/ ThreadProcess \/ ThreadRespond \/ ThreadMemset

(***************************************************************************)
(* The player, which owns the tracks.                                      *)
(***************************************************************************)
RECURSIVE Without(_, _, _)
Without(list, track, k) ==
    IF k > Len(list) THEN << >>
    ELSE IF list[k] = track THEN Without(list, track, k + 1)
    ELSE << list[k] >> \o Without(list, track, k + 1)

\* The event being delivered holds a reference to its track until
\* beefmote_message returns; nothing else of the plugin does.
HeldByEvent(track) ==
    hpc \in {"song_test", "print_call", "print_write"} /\ beefmote_currtrack = track

\* The player drops its last reference to a track (the track is removed from
\* the playlists and freed). The plugin is not told: beefmote_currtrack is a
\* plain pointer, stored without pl_item_ref.
BackendUnload ==
    /\ Alive
    /\ \E track \in deadbeef.loaded :
          /\ ~HeldByEvent(track)
          /\ deadbeef' =
                [deadbeef EXCEPT
                   !.loaded = @ \ {track},
                   !.plts = [k \in 1..Len(@) |->
                               [main |-> Without(@[k].main, track, 1),
                                search |-> Without(@[k].search, track, 1)]],
                   !.queue = Without(@, track, 1)]
    /\ UNCHANGED << globals, tvars, hvars, fds, cvars, setup, listened, nev, budget, beefmote_commands, gvars,
                    proc, refs >>

(***************************************************************************)
(* beefmote_message, called by the host thread for each event.             *)
(***************************************************************************)
PlaylistChangedMsg ==
    "\nThe current playlist content changed; you may want to get the tracklist again.\n\n"

\* case DB_EV_SONGCHANGED: beefmote_currtrack = ((ddb_event_trackchange_t*) ctx)->to;
EventSongChanged ==
    /\ Alive /\ hpc = "idle" /\ nev < budget.events
    /\ \E to \in (Tracks \cap deadbeef.loaded) \cup {NULL} : beefmote_currtrack' = to
    /\ nev' = nev + 1
    /\ hpc' = "song_test"
    /\ UNCHANGED << beefmote_stopthread, beefmote_stopthread_mutex, beefmote_tid,
                    beefmote_socket, beefmote_client_socket,
                    beefmote_notify_playlistchanged, beefmote_notify_nowplaying,
                    tvars, hq, harg, fds, cvars, setup, listened, gvars, budget, beefmote_commands, proc, deadbeef, refs >>

\* if (beefmote_currtrack && beefmote_notify_nowplaying && beefmote_client_socket != -1)
\* then three helper calls follow, else break.
MessageSongTest ==
    /\ Alive /\ hpc = "song_test"
    /\ IF /\ beefmote_currtrack # NULL
          /\ beefmote_notify_nowplaying
          /\ beefmote_client_socket # -1
       THEN /\ hq' = << "Now playing ", TrackStr(beefmote_currtrack), "\n" >>
            /\ hpc' = "print_call"
       ELSE /\ hq' = << >>
            /\ hpc' = "idle"
    /\ UNCHANGED << globals, tvars, harg, fds, cvars, setup, listened, nev, gvars, budget, beefmote_commands, proc, deadbeef, refs >>

\* case DB_EV_PLAYLISTCHANGED, with p1 the kind of change.
EventPlaylistChanged ==
    /\ Alive /\ hpc = "idle" /\ nev < budget.events
    /\ nev' = nev + 1
    /\ \E content \in BOOLEAN : hpc' = IF content THEN "playlist_test" ELSE "idle"
    /\ UNCHANGED << globals, tvars, hq, harg, fds, cvars, setup, listened, gvars, budget, beefmote_commands, proc, deadbeef, refs >>

\* if (beefmote_client_socket != -1 && beefmote_notify_playlistchanged)
MessagePlaylistTest ==
    /\ Alive /\ hpc = "playlist_test"
    /\ IF beefmote_client_socket # -1 /\ beefmote_notify_playlistchanged
       THEN /\ hq' = << PlaylistChangedMsg >>
            /\ hpc' = "print_call"
       ELSE /\ hq' = << >>
            /\ hpc' = "idle"
    /\ UNCHANGED << globals, tvars, harg, fds, cvars, setup, listened, nev, gvars, budget, beefmote_commands, proc, deadbeef, refs >>

\* client_print_string / client_print_track / client_print_newline is called
\* with the value beefmote_client_socket has now; assert(client_socket > 0)
\* aborts the process when it fails.
MessagePrintCall ==
    /\ Alive /\ hpc = "print_call"
    /\ harg' = beefmote_client_socket
    /\ hpc' = IF beefmote_client_socket > 0 THEN "print_write" ELSE "aborted"
    /\ UNCHANGED << globals, tvars, hq, fds, cvars, setup, listened, nev, gvars, budget, beefmote_commands, proc, deadbeef, refs >>

\* the helper's write(client_socket, ...), then the next call or the return
MessagePrintWrite ==
    /\ Alive /\ hpc = "print_write"
    /\ wire' = Written(harg, [by |-> "event", rd |-> 0, txt |-> Head(hq)])
    /\ hq' = Tail(hq)
    /\ hpc' = IF Tail(hq) = << >> THEN "idle" ELSE "print_call"
    /\ UNCHANGED << globals, tvars, harg, fds, cvars, setup, listened, nev,
                    nread, stop_closed, waits_since, dispatch_since, budget, beefmote_commands, proc, deadbeef, refs >>

beefmote_message ==
    \/ MessageSongTest \/ MessagePlaylistTest \/ MessagePrintCall \/ MessagePrintWrite

(***************************************************************************)
(* plugin_stop, called by the host thread.                                 *)
(***************************************************************************)
\* if (beefmote_tid) { ... } return 0;
StopCall ==
    /\ Alive /\ hpc = "idle"
    /\ hpc' = IF beefmote_tid # 0 THEN "stop_lock" ELSE "stopped"
    /\ UNCHANGED << globals, tvars, hq, harg, fds, cvars, setup, listened, nev, gvars, budget, beefmote_commands, proc, deadbeef, refs >>

\* mutex_lock(beefmote_stopthread_mutex);
StopLock ==
    /\ Alive /\ hpc = "stop_lock"
    /\ beefmote_stopthread_mutex = "free"
    /\ beefmote_stopthread_mutex' = "host"
    /\ hpc' = "stop_set"
    /\ UNCHANGED << beefmote_stopthread, beefmote_tid, beefmote_socket,
                    beefmote_client_socket, beefmote_currtrack,
                    beefmote_notify_playlistchanged, beefmote_notify_nowplaying,
                    tvars, hq, harg, fds, cvars, setup, listened, nev, gvars, budget, beefmote_commands, proc, deadbeef, refs >>

\* beefmote_stopthread = 1; mutex_unlock(beefmote_stopthread_mutex);
StopSet ==
    /\ Alive /\ hpc = "stop_set"
    /\ beefmote_stopthread' = 1
    /\ beefmote_stopthread_mutex' = "free"
    /\ hpc' = "stop_close"
    /\ UNCHANGED << beefmote_tid, beefmote_socket,
                    beefmote_client_socket, beefmote_currtrack,
                    beefmote_notify_playlistchanged, beefmote_notify_nowplaying,
                    tvars, hq, harg, fds, cvars, setup, listened, nev, gvars, budget, beefmote_commands, proc, deadbeef, refs >>

\* if (beefmote_socket != -1) close(beefmote_socket);
StopClose ==
    /\ Alive /\ hpc = "stop_close"
    /\ IF beefmote_socket # -1
       THEN /\ fds' = Closed(beefmote_socket)
            /\ stop_closed' = stop_closed \cup {beefmote_socket}
       ELSE UNCHANGED << fds, stop_closed >>
    /\ hpc' = "stop_join"
    /\ UNCHANGED << globals, tvars, hq, harg, cvars, setup, listened, nev,
                    wire, nread, waits_since, dispatch_since, budget, beefmote_commands, proc, deadbeef, refs >>

\* Faulty variant of StopJoin: plugin_stop returns without joining the task.
StopJoin_NoJoin ==
    /\ Alive /\ hpc = "stop_join"
    /\ beefmote_stopthread_mutex' = "none"
    /\ hpc' = "stopped"
    /\ UNCHANGED << beefmote_stopthread, beefmote_tid, beefmote_socket,
                    beefmote_client_socket, beefmote_currtrack,
                    beefmote_notify_playlistchanged, beefmote_notify_nowplaying,
                    tvars, hq, harg, fds, cvars, setup, listened, nev, gvars, budget, beefmote_commands, proc, deadbeef, refs >>

\* thread_join(beefmote_tid); mutex_free(beefmote_stopthread_mutex); return 0;
StopJoin ==
    /\ Alive /\ hpc = "stop_join"
    /\ tpc = "exited"
    /\ beefmote_stopthread_mutex' = "none"
    /\ hpc' = "stopped"
    /\ UNCHANGED << beefmote_stopthread, beefmote_tid, beefmote_socket,
                    beefmote_client_socket, beefmote_currtrack,
                    beefmote_notify_playlistchanged, beefmote_notify_nowplaying,
                    tvars, hq, harg, fds, cvars, setup, listened, nev, gvars, budget, beefmote_commands, proc, deadbeef, refs >>

plugin_stop == StopLock \/ StopSet \/ StopClose \/ StopJoin

(***************************************************************************)
(* The clients.                                                            *)
(***************************************************************************)
\* The descriptors of the sessions the server has open.
OpenSessions == {d \in DOMAIN fds : fds[d] # 0}

\* The session accepted last is still open at the server.
SessionOpen == \E d \in OpenSessions : fds[d] = nacc

\* A client connects: the connection waits in the backlog until accepted.
ClientConnect ==
    /\ Alive
    /\ nconn < budget.conns
    /\ IsListening(ListenFd)
    /\ nconn' = nconn + 1
    /\ UNCHANGED << globals, tvars, hvars, fds, nacc, inbox, peer_closed, nsent,
                    setup, listened, nev, gvars, budget, beefmote_commands, proc, deadbeef, refs >>

\* The connected client sends a buffer of bytes.
ClientSend ==
    /\ Alive
    /\ SessionOpen /\ ~peer_closed /\ inbox = ""
    /\ nsent < budget.sends
    /\ \E line \in budget.lines : inbox' = line
    /\ nsent' = nsent + 1
    /\ UNCHANGED << globals, tvars, hvars, fds, nconn, nacc, peer_closed,
                    setup, listened, nev, gvars, budget, beefmote_commands, proc, deadbeef, refs >>

\* The connected client closes its end.
ClientClose ==
    /\ Alive
    /\ SessionOpen /\ ~peer_closed
    /\ peer_closed' = TRUE
    /\ UNCHANGED << globals, tvars, hvars, fds, nconn, nacc, inbox, nsent,
                    setup, listened, nev, gvars, budget, beefmote_commands, proc, deadbeef, refs >>

(***************************************************************************)
(* The specifications.                                                     *)
(***************************************************************************)
Next ==
    \/ plugin_start
    \/ beefmote_thread
    \/ EventSongChanged \/ EventPlaylistChanged
    \/ beefmote_message
    \/ BackendUnload
    \/ StopCall
    \/ plugin_stop
    \/ ClientConnect \/ ClientSend \/ ClientClose

Spec == Init /\ [][Next]_vars

SpecParse == InitParse /\ [][Next]_vars

\* The snapshot's dispatcher alone, on one line.
SpecSnapshot == Init /\ [][SnapshotRead \/ SnapshotProcess]_vars

SpecRefs == InitRefs /\ [][Next]_vars

SpecFull == InitFull /\ [][Next]_vars

\* Registrations alone, from the zeroed array.
SpecRegister == Init /\ [][RegisterCommand]_vars

SpecEdge == InitEdge /\ [][Next]_vars

SpecRead == InitRead /\ [][Next]_vars

SpecListen == InitListen /\ [][Next]_vars

SpecToggle == InitToggle /\ [][Next]_vars

SpecStep == InitStep /\ [][Next]_vars

SpecPlayer == InitPlayer /\ [][Next]_vars

SpecDispatch == InitDispatch /\ [][Next]_vars

SpecSession == InitSession /\ [][Next]_vars
SpecAgain == InitAgain /\ [][Next]_vars

\* The scheduler runs the background task whenever it can take a step, and
\* the host thread finishes the callback or the plugin_stop it is in.
SpecFair ==
    /\ Init /\ [][Next]_vars
    /\ WF_vars(beefmote_thread)
    /\ WF_vars(beefmote_message)
    /\ WF_vars(plugin_stop)

(***************************************************************************)
(* Properties.                                                             *)
(***************************************************************************)
SetupFailed == setup \in {"socket_failed", "bind_failed", "listen_failed"}
StopReturned == hpc = "stopped" /\ beefmote_tid # 0
InStop == hpc \in {"stop_lock", "stop_set", "stop_close", "stop_join"}

\* C1: once plugin_stop has returned (the task had been started), the task
\* has exited and can take no further step (no accept, no write), no
\* listening socket is open and no session is open.
C1_ShutdownComplete ==
    StopReturned =>
        /\ tpc = "exited"
        /\ ~ENABLED beefmote_thread
        /\ DOMAIN fds = {}

\* plugin_stop has returned after a command was dispatched with the flag set.
C1_Witness == StopReturned /\ dispatch_since = 1

\* C2: under weak fairness of the task and of the host thread inside
\* plugin_stop, and unless a handler call fails to return, once the shutdown
\* flag is set plugin_stop returns (its join has seen the task exit).
C2_StopTerminates ==
    (beefmote_stopthread = 1) ~> (hpc = "stopped" \/ tpc = "crashed")

\* The flag is set while the task is in the middle of a handler's writes.
C2_Witness == beefmote_stopthread = 1 /\ tpc = "respond" /\ todo # << >>

\* C3: with the shutdown flag set, the task begins at most one bounded wait
\* and at most one dispatch before it exits, and it is never blocked: the one
\* call of the task that can block, mutex_lock, finds the mutex free.
C3_BoundedShutdownLatency ==
    /\ waits_since <= 1
    /\ dispatch_since <= 1
    /\ (beefmote_stopthread = 1 /\ tpc \in {"outer_lock", "inner_lock"})
          => beefmote_stopthread_mutex = "free"

\* The task has exited after one wait and one dispatch begun with the flag set.
C3_Witness == tpc = "exited" /\ waits_since = 1 /\ dispatch_since = 1

\* C4: at most one session is open, and accept() is called only with none open.
C4_SingleSession ==
    /\ Cardinality(OpenSessions) <= 1
    /\ tpc = "accept" => OpenSessions = {}

\* A second connection waits in the backlog while the first session is read.
C4_Witness == OpenSessions # {} /\ Pending > 0 /\ tpc = "select"

\* C5: after a failed socket setup, a plugin_stop that has returned (the task
\* had been started) has set the flag and closed no descriptor, and the task
\* has exited; while plugin_stop runs, it or the task can always take a step.
C5_StopAfterFailedSetup ==
    /\ (SetupFailed /\ StopReturned) =>
          /\ beefmote_stopthread = 1
          /\ stop_closed = {}
          /\ tpc = "exited"
    /\ (SetupFailed /\ InStop) => ENABLED (plugin_stop \/ beefmote_thread)

\* plugin_stop has returned after bind() had failed in plugin_start.
C5_Witness == setup = "bind_failed" /\ StopReturned

\* C6: after a failed socket setup the task never reaches accept() or any
\* later statement, no descriptor is ever opened again, nothing is written
\* to any session, and the process has not aborted.
C6_FailedSetupNeverServes ==
    SetupFailed =>
        /\ beefmote_socket = NoSocket
        /\ DOMAIN fds = {}
        /\ tpc \in {"none", "outer_lock", "outer_test", "outer_socket", "exited"}
        /\ nacc = 0
        /\ \A d \in ClientFds : wire[d] = << >>
        /\ Alive

\* listen() has failed, an event has been handled, and the task still loops.
C6_Witness == setup = "listen_failed" /\ nev > 0 /\ hpc = "idle" /\ tpc = "outer_socket"

\* Some open session has been sent the banner.
Greeted ==
    \E d \in OpenSessions : \E i \in 1..Len(wire[d]) : wire[d][i].by = "banner"

\* C7: when a session has ended through an error or the peer's close, with
\* the flag clear, the listening socket valid and a connection pending, a
\* session is eventually accepted and sent the banner (unless shutdown is
\* requested first).
C7_ServerSurvivesTransportErrors ==
    (/\ tpc = "error_reset"
     /\ beefmote_stopthread = 0
     /\ IsListening(beefmote_socket)
     /\ Pending > 0)
    ~> (Greeted \/ beefmote_stopthread = 1)

\* A session has just been closed after an error with a connection pending,
\* while the event callback is between its test of the handle and its write.
C7_Witness ==
    /\ tpc = "error_reset" /\ beefmote_stopthread = 0
    /\ IsListening(beefmote_socket) /\ Pending > 0
    /\ Alive /\ hpc = "print_call"

\* C8: whatever a session has received, the banner is the first entry and the
\* only banner.
C8_BannerFirstAndOnce ==
    \A d \in ClientFds : \A i \in 1..Len(wire[d]) :
        (wire[d][i].by = "banner") <=> (i = 1)

\* A session has been sent the banner and then a notification.
C8_Witness ==
    \E d \in OpenSessions :
        /\ Len(wire[d]) >= 2
        /\ wire[d][1].by = "banner" /\ wire[d][2].by = "event"

\* C9: a session's command responses appear in the order of the reads they
\* answer, and when the task waits for, reads or dispatches the next buffer
\* no write of an earlier dispatch is outstanding.
C9_ResponsesInOrder ==
    /\ \A d \in ClientFds : \A i, j \in 1..Len(wire[d]) :
          (i < j /\ wire[d][i].by = "command" /\ wire[d][j].by = "command")
              => wire[d][i].rd <= wire[d][j].rd
    /\ tpc \in {"inner_lock", "inner_test", "select", "read", "process"} => todo = << >>
    /\ \A d \in ClientFds : \A i \in 1..Len(wire[d]) :
          wire[d][i].by = "command" => wire[d][i].rd <= nread

\* The second buffer of a session has been read, and both have been answered.
C9_Witness ==
    /\ nread = 2 /\ tpc = "inner_lock"
    /\ \E d \in OpenSessions :
          /\ \E i \in 1..Len(wire[d]) : wire[d][i].by = "command" /\ wire[d][i].rd = 1
          /\ \E i \in 1..Len(wire[d]) : wire[d][i].by = "command" /\ wire[d][i].rd = 2

\* C10: whenever a helper called from the event callback is about to write,
\* its descriptor is an open session.  (The claim's reason, that the handle
\* reads -1 as soon as the session has ended, fails between close() and the
\* assignment that follows it.)
C10_NoWriteAfterClose == hpc = "print_write" => IsSession(harg)

\* The callback is about to write to the session it found open.
C10_Witness == hpc = "print_write" /\ IsSession(harg) /\ harg = beefmote_client_socket

\* C11: no interleaving of the event callback with the connection loop makes
\* an assert(client_socket > 0) of the write helpers fail: the process never
\* aborts.
C11_CallbackNeverAborts == hpc # "aborted"

\* The callback has made the first of its three writes and is about to call
\* the next helper, while the loop is about to close the session.
C11_Witness == hpc = "print_call" /\ Len(hq) = 2 /\ tpc = "error_close"

\* C12: when the track recorded by the last track-changed event has been
\* unloaded, a `tc` command does not dereference it: the handler answers
\* "No current track" and returns.
C12_StaleTrackTolerated ==
    [][(/\ tpc = "process" /\ tpc' # "process"
        /\ MatchCommand(ParseCommand(beefmote_buffer).command) = BEEFMOTE_TRACKCURR
        /\ beefmote_currtrack # NULL
        /\ beefmote_currtrack \notin deadbeef.loaded)
       => (todo' = << "\nNo current track\n\n" >> /\ ~proc'.crashed)]_vars

\* `tc` has been dispatched with the recorded track unloaded.
C12_Witness ==
    /\ tpc \in {"respond", "crashed"}
    /\ proc.calls # << >> /\ proc.calls[1].i = BEEFMOTE_TRACKCURR
    /\ beefmote_currtrack # NULL /\ beefmote_currtrack \notin deadbeef.loaded
    /\ todo # << "\nNo current track\n\n" >>

\* beefmote_process_command has parsed the buffer and not yet returned.
Parsed == proc # NoProc

\* C13: a token, one blank and an argument that starts with a non-blank and
\* holds no CR or LF parse to (token, argument), the argument untrimmed; a
\* token followed by a run of spaces, possibly empty, and the line ending
\* parses to (token, no argument).
C13_ParseTokenArgument ==
    Parsed =>
        /\ \A T \in Tokens, w \in Blanks, A \in Args, e \in Endings :
              beefmote_buffer = T \o w \o A \o e
                  => proc.command = T /\ proc.arg = << A >>
        /\ \A T \in Tokens, r \in SpaceRuns, e \in Endings :
              beefmote_buffer = T \o r \o e
                  => proc.command = T /\ proc.arg = << >>

\* A line whose argument ends in a space has been parsed.
C13_Witness ==
    Parsed /\ beefmote_buffer = "ps\t1 \r\n" /\ proc.arg = << "1 " >>

\* C14: when the token is followed by a run of one or more blanks and then a
\* non-blank, the argument is everything from that non-blank to the end of
\* the line, CR/LF stripped; there is no argument only when nothing but
\* blanks follows the token.
C14_ArgumentAfterAnyRun ==
    Parsed =>
        /\ \A T \in Tokens, r \in Blanks \cup WideRuns, A \in Args, e \in Endings :
              beefmote_buffer = T \o r \o A \o e
                  => proc.command = T /\ proc.arg = << A >>
        /\ proc.arg = << >> =>
              \E T \in Tokens, r \in SpaceRuns, e \in Endings :
                  beefmote_buffer = T \o r \o e

\* "vu  10\n", two spaces before the argument, has been parsed.
C14_Witness == Parsed /\ beefmote_buffer = "vu  10\n" /\ proc.command = "vu"

\* The step in which beefmote_process_command parses and dispatches the
\* buffer, and the token it dispatches.
Dispatching == tpc = "process" /\ tpc' # "process"
Token == ParseCommand(beefmote_buffer).command

\* C15: the handler of a registered command is invoked if and only if the
\* parsed token equals the command's name; a proper prefix or a proper
\* extension of a name does not invoke that command's handler; at most one
\* handler is invoked, and it is given the parsed argument.
C15_ExactNameDispatch ==
    Parsed =>
        /\ Len(proc.calls) <= 1
        /\ \A i \in 1..BEEFMOTE_COMMANDS_N :
              (\E k \in 1..Len(proc.calls) : proc.calls[k].i = i)
                  <=> proc.command = beefmote_commands[i].name
        /\ \A k \in 1..Len(proc.calls) : proc.calls[k].arg = proc.arg

\* "px 1" has been dispatched: no handler was invoked.
C15_Witness ==
    Parsed /\ proc.command = "px" /\ proc.arg = << "1" >> /\ proc.calls = << >>

\* C16: dispatching a token that equals no registered name writes exactly
\* the invalid-command message and changes nothing else: no handler runs, the
\* player receives no call, the flags and the rest of the server state are
\* unchanged and the session stays open.
C16_UnknownTokenOnlyAnswers ==
    [][(Dispatching /\ Token \notin Names)
       => /\ todo' = << "\nPlease type a valid command\n\n" >>
          /\ proc'.calls = << >>
          /\ tpc' = "respond"
          /\ beefmote_client_socket' # -1
          /\ UNCHANGED << globals, deadbeef, refs, fds, hvars, beefmote_buffer >>]_vars

\* "zzz" has been dispatched and its one write is about to be made.
C16_Witness ==
    /\ Parsed /\ proc.command = "zzz" /\ tpc = "respond"
    /\ todo = << "\nPlease type a valid command\n\n" >>

\* C17: the banner holds the name of the help command, and the help command
\* writes a blank line, one entry "<name>\n\t<help>\n" per registered command
\* in registry order, and a blank line, whatever its argument and whatever
\* the state of the server.
C17_HelpListsRegistry ==
    [][/\ \A d \in ClientFds :
            (Len(wire'[d]) > Len(wire[d]) /\ wire'[d][Len(wire'[d])].by = "banner")
                => Contains(wire'[d][Len(wire'[d])].txt,
                            "\"" \o beefmote_commands[BEEFMOTE_HELP].name \o "\"", 1)
       /\ (Dispatching /\ Token = beefmote_commands[BEEFMOTE_HELP].name)
          => /\ Len(todo') = BEEFMOTE_COMMANDS_N + 2
             /\ todo'[1] = "\n"
             /\ todo'[BEEFMOTE_COMMANDS_N + 2] = "\n"
             /\ \A i \in 1..BEEFMOTE_COMMANDS_N :
                   todo'[i + 1] = beefmote_commands[i].name \o "\n\t"
                                     \o beefmote_commands[i].help \o "\n"
             /\ UNCHANGED << globals, deadbeef, refs >>]_vars

\* The help command has been dispatched with an argument, and all of its
\* writes are still to be made.
C17_Witness ==
    /\ Parsed /\ proc.command = "h" /\ proc.arg = << "1" >>
    /\ Len(todo) = BEEFMOTE_COMMANDS_N + 2

\* The argument of the line being dispatched, for a line "<c> <a>" of the
\* index commands; the lists of the current playlist.
IsLine(c, a) == beefmote_buffer \in {c \o " " \o a \o "\n", c \o " " \o a \o "\r\n"}
CurrMain == IF deadbeef.plt_curr = -1 THEN << >> ELSE deadbeef.plts[deadbeef.plt_curr + 1].main
CurrSearch == IF deadbeef.plt_curr = -1 THEN << >> ELSE deadbeef.plts[deadbeef.plt_curr + 1].search
IndexErrors ==
    {<< "\nNo playlists\n\n" >>, << "\nPlaylist index out of bounds\n\n" >>,
     << "\nInvalid search index\n\n" >>}

\* C18: for `pl idx`, `ps idx` and `aps idx`, an index of 0 or above the
\* count the player reports is answered with an out-of-bounds or
\* invalid-index message and leaves the player as it was; a valid index i
\* acts on item i - 1 (selects playlist i - 1, requests the play of, or
\* queues, item i - 1 of the search list).
C18_IndexCommandsChecked ==
    [][Dispatching =>
        \A a \in DOMAIN IndexArgs :
          LET idx == IndexArgs[a] IN
          /\ IsLine("pl", a) =>
                IF idx >= 1 /\ idx <= Len(deadbeef.plts)
                THEN deadbeef' = [deadbeef EXCEPT !.plt_curr = idx - 1]
                ELSE todo' \in IndexErrors /\ deadbeef' = deadbeef
          /\ IsLine("ps", a) =>
                IF idx >= 1 /\ idx <= Len(CurrSearch)
                THEN \E k \in 1..Len(CurrMain) :
                        /\ CurrMain[k] = CurrSearch[idx]
                        /\ deadbeef' = [deadbeef EXCEPT !.msgs =
                              Append(@, [id |-> "DB_EV_PLAY_NUM", p1 |-> k - 1])]
                ELSE todo' \in IndexErrors /\ deadbeef' = deadbeef
          /\ IsLine("aps", a) =>
                IF idx >= 1 /\ idx <= Len(CurrSearch)
                THEN deadbeef' = [deadbeef EXCEPT !.queue = Append(@, CurrSearch[idx])]
                ELSE todo' \in IndexErrors /\ deadbeef' = deadbeef]_vars

\* "ps 1" has been dispatched to a player that has no current playlist.
C18_Witness ==
    /\ Parsed /\ proc.command = "ps" /\ proc.arg = << "1" >>
    /\ deadbeef.plt_curr = -1

\* C19: `p idx` is checked against the number of tracks of the current
\* playlist: an idx of 0, above that number or not a number is answered with
\* a message and no play request is sent.
C19_PlayIndexChecked ==
    [][Dispatching =>
        \A a \in DOMAIN IndexArgs :
          (IsLine("p", a) /\ (IndexArgs[a] < 1 \/ IndexArgs[a] > Len(CurrMain)))
              => todo' # << >> /\ deadbeef'.msgs = deadbeef.msgs]_vars

\* "p 0" has been dispatched.
C19_Witness == Parsed /\ proc.command = "p" /\ proc.arg = << "0" >>

\* C20: `pa <handle>` sends a play request only for a handle that is a track
\* of the current playlist, and then with the index of that track; any other
\* handle (unparseable and zero included) is answered with the invalid-handle
\* message and no request is sent.
C20_PlayAddressValidated ==
    [][Dispatching =>
        \A a \in DOMAIN HandleArgs :
          IsLine("pa", a) =>
            IF \E k \in 1..Len(CurrMain) : CurrMain[k] = HandleArgs[a]
            THEN \E k \in 1..Len(CurrMain) :
                    /\ CurrMain[k] = HandleArgs[a]
                    /\ deadbeef' = [deadbeef EXCEPT !.msgs =
                          Append(@, [id |-> "DB_EV_PLAY_NUM", p1 |-> k - 1])]
            ELSE /\ todo' = << "\nInvalid track memory address\n\n" >>
                 /\ deadbeef' = deadbeef]_vars

\* A play request has been sent for the second track of the playlist, named
\* by its address.
C20_Witness ==
    /\ Parsed /\ proc.command = "pa" /\ proc.arg = << "2" >>
    /\ deadbeef.msgs = << [id |-> "DB_EV_PLAY_NUM", p1 |-> 1] >>

\* The buffer being dispatched is the command c alone.
IsBare(c) == beefmote_buffer \in {c \o "\n", c \o "\r\n"}

\* C21: `vu` and `vd` set the volume to its value plus (vu) or minus (vd) 5
\* when given no argument, and plus or minus n when given the number n, with
\* exactly one volume_set_db call and no write to the session.
C21_VolumeStep ==
    [][Dispatching =>
        \A c \in {"vu", "vd"} :
          LET sign == IF c = "vu" THEN 1 ELSE -1
              Set(step) ==
                  /\ deadbeef' = [deadbeef EXCEPT
                                    !.volume = @ + sign * step,
                                    !.volume_sets = @ + 1]
                  /\ todo' = << >>
          IN /\ IsBare(c) => Set(BEEFMOTE_VOLUME_STEP)
             /\ \A a \in DOMAIN StepArgs : IsLine(c, a) => Set(StepArgs[a])]_vars

\* "vd 3 " has been dispatched: the volume went from 0 to -3.
C21_Witness ==
    /\ Parsed /\ proc.command = "vd" /\ proc.arg = << "3 " >>
    /\ deadbeef.volume = -3 /\ deadbeef.volume_sets = 1

\* C22: `sf` and `sb` move the playback position by 5 when given no
\* argument and by n when given the number n.
C22_SeekStep ==
    [][Dispatching =>
        \A c \in {"sf", "sb"} :
          LET sign == IF c = "sf" THEN 1 ELSE -1
          IN /\ IsBare(c) => deadbeef'.pos = deadbeef.pos + sign * BEEFMOTE_SEEK_STEP
             /\ \A a \in DOMAIN StepArgs :
                   IsLine(c, a) => deadbeef'.pos = deadbeef.pos + sign * StepArgs[a]]_vars

\* "sf 10" has been dispatched.
C22_Witness ==
    /\ Parsed /\ proc.command = "sf" /\ proc.arg = << "10" >>
    /\ deadbeef.pos_sets = 1

\* C23: an argument of `vu` or `vd` that is no number is answered with a
\* message on the session, and the volume keeps its value.
C23_BadStepReported ==
    [][Dispatching =>
        \A c \in {"vu", "vd"}, a \in NonNumbers :
          IsLine(c, a) => todo' # << >> /\ deadbeef'.volume = deadbeef.volume]_vars

\* "vu abc" has been dispatched.
C23_Witness == Parsed /\ proc.command = "vu" /\ proc.arg = << "abc" >>

\* What `ntfy-plchanged` writes when it leaves the flag at the given value.
ToggleText(flag) ==
    << "\nNotification set to " \o (IF flag THEN "true." ELSE "false.") \o "\n\n" >>

\* C24: each dispatch of `ntfy-plchanged` flips the playlist-changed flag and
\* writes the text that names the flag's new value, and no other step of the
\* program changes the flag: two toggles return it to its value, whatever
\* commands are dispatched in between.
C24_ToggleRoundTrip ==
    [][IF Dispatching /\ Token = "ntfy-plchanged"
       THEN /\ beefmote_notify_playlistchanged' = ~beefmote_notify_playlistchanged
            /\ todo' = ToggleText(beefmote_notify_playlistchanged')
       ELSE UNCHANGED beefmote_notify_playlistchanged]_vars

\* The third line of a session is the second toggle: the first line was a
\* toggle (answered "true"), the second was not, and the flag is back at
\* false.
C24_Witness ==
    /\ Parsed /\ proc.command = "ntfy-plchanged" /\ nread = 3
    /\ ~beefmote_notify_playlistchanged /\ todo = ToggleText(FALSE)
    /\ IsSession(beefmote_client_socket)
    /\ \E k \in 1..Len(wire[beefmote_client_socket]) :
          /\ wire[beefmote_client_socket][k].rd = 1
          /\ << wire[beefmote_client_socket][k].txt >> = ToggleText(TRUE)
    /\ \A k \in 1..Len(wire[beefmote_client_socket]) :
          wire[beefmote_client_socket][k].rd # 2

\* C25: every command that sets or toggles a notification flag writes a
\* reply to the session: `ntfy-plchanged`, `ntfy-nowplaying true` and
\* `ntfy-nowplaying false`.
C25_FlagChangeConfirmed ==
    [][(/\ Dispatching
        /\ \/ Token = "ntfy-plchanged"
           \/ IsLine("ntfy-nowplaying", "true")
           \/ IsLine("ntfy-nowplaying", "false"))
       => todo' # << >>]_vars

\* "ntfy-nowplaying true" has been dispatched and the flag is set.
C25_Witness ==
    /\ Parsed /\ proc.command = "ntfy-nowplaying" /\ proc.arg = << "true" >>
    /\ beefmote_notify_nowplaying

\* C26: the address passed to bind holds the IP and the port of the
\* configuration when they are set, and all interfaces (0.0.0.0) and port
\* 49160 when they are not: a configured 127.0.0.1 is the address bound.
C26_BindsConfiguredAddress ==
    setup \in {"ok", "bind_failed", "listen_failed"} =>
        /\ sin_addr(listened.servaddr) = ConfIPs[listened.ip_str]
        /\ sin_port(listened.servaddr) = ConfPorts[listened.port_str]

\* The plugin listens after a start with beefmote.ip = 127.0.0.1 and
\* beefmote.port = 8080.
C26_Witness ==
    /\ setup = "ok" /\ IsListening(beefmote_socket)
    /\ listened.ip_str = "127.0.0.1" /\ listened.port_str = "8080"

\* The sessions open among the descriptors f.
SessionsOf(f) == {d \in DOMAIN f : f[d] # 0}

\* C27: an accepted socket is closed by one close() on the open descriptor,
\* made only after select returned -1, after read returned 0 or less, or
\* after the task saw the shutdown flag set; no session stays open when the
\* task leaves the connection loop; a select timeout and a processed command
\* leave the session open; and a command is dispatched only for a read of
\* more than 0 bytes.
C27_SessionClosedOnce ==
    [][/\ SessionsOf(fds') # SessionsOf(fds) /\ SessionsOf(fds') \subseteq SessionsOf(fds)
          => /\ SessionsOf(fds) \ SessionsOf(fds') = {beefmote_client_socket}
             /\ \/ tpc = "error_close" /\ (rv = -1 \/ (rv = 1 /\ bytes_n <= 0))
                \/ tpc = "stop_close" /\ beefmote_stopthread = 1
       /\ (tpc \in {"error_close", "stop_close"} /\ tpc' # tpc)
          => IsSession(beefmote_client_socket) /\ ~IsOpen(beefmote_client_socket)'
       /\ tpc' \in {"outer_lock", "outer_test", "outer_socket", "accept", "sleep", "exited"}
          => SessionsOf(fds') = {}
       /\ (tpc \in {"select", "memset"} /\ tpc' = "inner_lock") => fds' = fds
       /\ Dispatching => rv = 1 /\ bytes_n > 0]_vars

\* The second session of the run is being closed after its peer closed,
\* the first having been closed too.
C27_Witness ==
    /\ tpc = "error_reset" /\ nacc = 2 /\ rv = 1 /\ bytes_n = 0
    /\ SessionsOf(fds) = {}

\* C28: each read of more than 0 bytes is followed by exactly one dispatch
\* (one handler call, or the invalid-command reply); of two complete lines
\* read at once only the first is dispatched, as if it had come alone, and
\* the second has no effect; the parts of a line read in two reads are
\* dispatched as two commands.
C28_OneDispatchPerRead ==
    [][/\ (tpc = "read" /\ tpc' # "read") => (bytes_n' > 0 <=> tpc' = "process")
       /\ (tpc' = "process" /\ tpc # "process") => tpc = "read"
       /\ Dispatching =>
            /\ \/ Len(proc'.calls) = 1
               \/ proc'.calls = << >> /\ todo' = << "\nPlease type a valid command\n\n" >>
            /\ \A l1 \in DOMAIN CompleteLines, l2 \in DOMAIN CompleteLines :
                  beefmote_buffer = l1 \o l2 =>
                      /\ proc'.command = CompleteLines[l1].command
                      /\ proc'.arg = CompleteLines[l1].arg
            /\ \A k \in 1..2 :
                  beefmote_buffer = SplitLine[k] =>
                      proc'.command = SplitTokens[k] /\ proc'.arg = << >>]_vars

\* "vu\n" and "vd 3\r\n" have arrived in one read and have been dispatched.
C28_Witness == Parsed /\ beefmote_buffer = "vu\nvd 3\r\n" /\ proc.command = "vu"

\* C29: once beefmote_stopthread is 1 it stays 1; after plugin_start the
\* flag changes only in plugin_stop's assignment, which writes 1, and no
\* step of the task, of a command handler or of an event callback changes it.
C29_FlagNeverReset ==
    [][/\ beefmote_stopthread = 1 => beefmote_stopthread' = 1
       /\ beefmote_stopthread' # beefmote_stopthread =>
            /\ hpc = "stop_set" /\ hpc' = "stop_close"
            /\ beefmote_stopthread' = 1
            /\ UNCHANGED << tvars, proc, deadbeef, refs, nev, hq >>
       /\ (hpc # "loaded" /\ (tpc' # tpc \/ proc' # proc \/ nev' # nev \/ hq' # hq)) =>
            beefmote_stopthread' = beefmote_stopthread]_vars

\* The flag is set, a command was dispatched after that, and the task is gone.
C29_Witness == beefmote_stopthread = 1 /\ dispatch_since >= 1 /\ tpc = "exited"

\* C30: once the task runs, the flag is read and written only by the holder
\* of beefmote_stopthread_mutex; the task holds the mutex only between its
\* lock and the test of the flag, and has released it on every way out of
\* the test, the returns included, so it never holds it at an accept, sleep,
\* select, read, write, handler call or after its return; a plugin_stop
\* that waits for the mutex waits for a holder whose next step releases it.
C30_FlagGuarded ==
    [][/\ beefmote_stopthread' # beefmote_stopthread =>
            beefmote_stopthread_mutex = "host" /\ beefmote_stopthread_mutex' = "free"
       /\ (tpc \in {"outer_test", "inner_test"} /\ tpc' # tpc) =>
            /\ beefmote_stopthread_mutex = "thread" /\ beefmote_stopthread_mutex' = "free"
            /\ tpc' = IF beefmote_stopthread = 1
                      THEN (IF tpc = "outer_test" THEN "exited" ELSE "stop_close")
                      ELSE (IF tpc = "outer_test" THEN "outer_socket" ELSE "select")
       /\ (tpc \notin {"outer_lock", "inner_lock", "outer_test", "inner_test"} /\ tpc' # tpc) =>
            /\ beefmote_stopthread_mutex # "thread"
            /\ tpc' \notin {"outer_test", "inner_test"}
       /\ (tpc \notin {"outer_test", "inner_test"}) => beefmote_stopthread_mutex # "thread"
       /\ (hpc = "stop_set") <=> (beefmote_stopthread_mutex = "host")
       /\ (hpc = "stop_lock" /\ beefmote_stopthread_mutex # "free") =>
            /\ beefmote_stopthread_mutex = "thread"
            /\ tpc \in {"outer_test", "inner_test"}
            /\ ENABLED (ThreadOuterTest \/ ThreadInnerTest)]_vars

\* plugin_stop waits for the mutex while the task, in a session, holds it.
C30_Witness ==
    /\ hpc = "stop_lock" /\ beefmote_stopthread_mutex = "thread"
    /\ tpc = "inner_test" /\ IsOpen(beefmote_client_socket)

\* C31: the token handed to the dispatcher holds no whitespace character,
\* also when the line begins with a whitespace character; for a line that
\* is only "\n" or "\r\n" the token is empty.
C31_TokenWithoutBlanks ==
    [][Dispatching =>
          /\ \A j \in 0..(Len(proc'.command) - 1) : ~isspace(At(proc'.command, j))
          /\ beefmote_buffer \in EmptyLines => proc'.command = ""]_vars

\* " h\n" has been parsed: the token handed over is " h".
C31_Witness == Parsed /\ beefmote_buffer = " h\n" /\ proc.command = " h"

\* "\r\n" has been parsed: the token handed over is "\r".
C31_EmptyLineToken == Parsed /\ beefmote_buffer = "\r\n" /\ proc.command = "\r"

\* C32: the callback goes on to write "Now playing" only from a
\* track-changed event tested with beefmote_notify_nowplaying true, a session
\* open and the new track non-null, and the playlist message only from a
\* content-change event tested with beefmote_notify_playlistchanged true and
\* a session open; with the flag false or no session the event writes
\* nothing and queues nothing; text is written for an event only by the
\* callback's write step; a track-changed event is counted and tested
\* whatever the flags are.
C32_PushOnlyWhenDeliverable ==
    [][/\ (hpc = "song_test" /\ hpc' = "print_call") =>
            /\ beefmote_notify_nowplaying
            /\ IsSession(beefmote_client_socket)
            /\ beefmote_currtrack # NULL
       /\ (hpc = "playlist_test" /\ hpc' = "print_call") =>
            /\ beefmote_notify_playlistchanged
            /\ IsSession(beefmote_client_socket)
       /\ (/\ hpc = "song_test" /\ hpc' # hpc
           /\ (~beefmote_notify_nowplaying \/ ~IsSession(beefmote_client_socket))) =>
            hpc' = "idle" /\ hq' = << >> /\ wire' = wire
       /\ (/\ hpc = "playlist_test" /\ hpc' # hpc
           /\ (~beefmote_notify_playlistchanged \/ ~IsSession(beefmote_client_socket))) =>
            hpc' = "idle" /\ hq' = << >> /\ wire' = wire
       /\ (hpc' = "print_call" /\ hpc \notin {"print_call", "print_write"}) =>
            hpc \in {"song_test", "playlist_test"}
       /\ (\E d \in ClientFds :
               /\ Len(wire'[d]) > Len(wire[d])
               /\ wire'[d][Len(wire'[d])].by = "event") => hpc = "print_write"
       /\ (hpc = "idle" /\ hpc' \in {"song_test", "playlist_test"}) =>
            nev' = nev + 1 /\ wire' = wire]_vars

\* The callback has passed its test and is about to print, although the
\* session is closed and the handle not yet reset.
C32_Witness ==
    /\ hpc = "print_call" /\ beefmote_client_socket # -1
    /\ ~IsSession(beefmote_client_socket) /\ tpc \in {"error_reset", "stop_reset"}

\* C33: both notifications are off when a session is accepted, whatever an
\* earlier session enabled, and an open session that has been written a
\* notification has had at least one of its own commands read.
C33_NotificationsOffPerSession ==
    [][/\ (tpc = "accept" /\ tpc' = "welcome") =>
            ~beefmote_notify_nowplaying' /\ ~beefmote_notify_playlistchanged'
       /\ \A d \in ClientFds :
            (/\ d \in DOMAIN fds' /\ fds'[d] # 0
             /\ \E i \in 1..Len(wire'[d]) : wire'[d][i].by = "event") => nread' >= 1]_vars

\* The second session has sent nothing and has been written a notification
\* that the first session enabled.
C33_Witness ==
    /\ nacc = 2 /\ nread = 0 /\ nsent = 1
    /\ \E d \in OpenSessions : \E i \in 1..Len(wire[d]) : wire[d][i].by = "event"

\* C34: in every state after plugin_start the registry is the sequence
\* that beefmote_initialize_commands built, with one entry for each of the
\* BEEFMOTE_COMMANDS_N identifiers; every name is non-empty, free of
\* whitespace, fits char name[BEEFMOTE_STR_MAXLENGTH] with its NUL, has its
\* length recorded in name_len and differs from every other name (checked
\* of every value the registry takes); no step taken after plugin_start
\* changes the registry.
C34_RegistryFixed ==
    [][/\ hpc' # "loaded" => beefmote_commands' = beefmote_initialize_commands
       /\ (hpc' # "loaded" /\ beefmote_commands' # beefmote_commands) =>
            /\ DOMAIN beefmote_commands' = 1..BEEFMOTE_COMMANDS_N
            /\ \A i \in 1..BEEFMOTE_COMMANDS_N :
                  /\ beefmote_commands'[i].name # ""
                  /\ beefmote_commands'[i].name_len = Len(beefmote_commands'[i].name)
                  /\ Len(beefmote_commands'[i].name) < BEEFMOTE_STR_MAXLENGTH
                  /\ \A j \in 0..(Len(beefmote_commands'[i].name) - 1) :
                        ~isspace(At(beefmote_commands'[i].name, j))
                  /\ \A k \in 1..BEEFMOTE_COMMANDS_N :
                        k # i => beefmote_commands'[k].name # beefmote_commands'[i].name
       /\ hpc # "loaded" => beefmote_commands' = beefmote_commands]_vars

\* A handler has run and an event callback has returned.
C34_Witness ==
    /\ Parsed /\ Len(proc.calls) = 1 /\ nev = 1 /\ hpc = "idle"
    /\ beefmote_commands[BEEFMOTE_COMMANDS_N].name = "exit"

C35_LongNameStored ==
    hpc = "loaded" /\ beefmote_commands[BEEFMOTE_HELP].name_len = BEEFMOTE_STR_MAXLENGTH

\* C36: the task never calls accept() on the listening descriptor after
\* plugin_stop has closed it.
C36_NoAcceptAfterClose ==
    [][(tpc = "accept" /\ tpc' # "accept") =>
          (beefmote_socket \notin stop_closed /\ IsListening(beefmote_socket))]_vars

\* plugin_stop has closed the descriptor and waits in thread_join while the
\* task, past its test of the flag, is about to call accept() on it.
C36_Witness ==
    /\ tpc = "accept" /\ hpc = "stop_join"
    /\ beefmote_socket \in stop_closed /\ ~IsOpen(beefmote_socket)

\* C37: for every read of 1..BEEFMOTE_BUFSIZE bytes the text handed to the
\* parser has its terminating NUL inside the buffer, and the parser touches
\* no byte outside the buffer.
C37_ParserInsideBuffer ==
    [][Dispatching =>
          /\ bytes_n \in 1..BEEFMOTE_BUFSIZE /\ Len(beefmote_buffer) = bytes_n
          /\ Len(beefmote_buffer) < BEEFMOTE_BUFSIZE
          /\ MaxTouched(beefmote_buffer) < BEEFMOTE_BUFSIZE]_vars

\* A line of BEEFMOTE_BUFSIZE bytes has been read and handed to the parser.
C37_Witness ==
    /\ Parsed /\ bytes_n = BEEFMOTE_BUFSIZE /\ beefmote_buffer = FullLine
    /\ ParseOverrun(beefmote_buffer)

\* C38: a handler has released every playlist and track reference it got
\* from the player when it returns: no dispatch changes the number of
\* references the plugin holds, whatever the sequence of commands.
C38_ReferencesReleased ==
    [][Dispatching => refs'.plt = refs.plt /\ refs'.item = refs.item]_vars

\* `pl` has run on a player with one playlist: the reference to the current
\* playlist and the one to the playlist of the loop are still held.
C38_Witness == Parsed /\ proc.command = "pl" /\ proc.arg = << >> /\ refs.plt = 2

\* A search and a `ps 1` that was found have run: the tracks are released,
\* the playlist got by `ps` is not.
C38_SearchBalanced ==
    /\ Parsed /\ proc.command = "ps" /\ Len(deadbeef.msgs) = 1
    /\ refs = [plt |-> 1, item |-> 0]

\* C39: in the snapshot with full-word names, a line whose token is a
\* registered name followed by more characters runs no handler and is
\* answered with the invalid-command message.
C39_SnapshotExactMatch ==
    [][(hpc = "loaded" /\ proc = NoProc /\ proc' # NoProc) =>
          \A i \in 1..Len(snapshot_commands), x \in Extensions, e \in Endings :
              beefmote_buffer = snapshot_commands[i] \o x \o e =>
                  proc'.calls = << >> /\ todo' = << "\nPlease type a valid command\n\n" >>]_vars

\* "playx\n" has run the handler of play.
C39_Witness ==
    /\ hpc = "loaded" /\ beefmote_buffer = "playx\n"
    /\ proc.calls = << [i |-> 3, arg |-> << >>] >>

\* "stopnow\r\n" has run the handler of stop.
C39_StopNow ==
    /\ hpc = "loaded" /\ beefmote_buffer = "stopnow\r\n"
    /\ proc.calls = << [i |-> 7, arg |-> << >>] >>

\* C40: whenever the task is not between a successful read and the memset
\* that follows its dispatch, the receive buffer is all zero; so a read finds
\* it zero, failed and zero-byte reads leave it zero, and the text handed to
\* the parser is exactly the bytes_n bytes this read took from the
\* connection, in the same and in later sessions.
C40_BufferZeroAtRead ==
    [][/\ tpc \notin {"process", "respond", "memset", "crashed"} => beefmote_buffer = ""
       /\ (tpc = "read" /\ tpc' = "process") =>
             /\ beefmote_buffer' = SubSeq(inbox, 1, bytes_n')
             /\ Len(beefmote_buffer') = bytes_n'
       /\ (tpc = "read" /\ tpc' = "error_close") =>
             bytes_n' <= 0 /\ beefmote_buffer' = ""]_vars

\* A later session has read "tc\n" after the longer "ntfy-plchanged\n" was
\* dispatched.
C40_Witness ==
    /\ tpc = "process" /\ nacc >= 2 /\ nread >= 2
    /\ beefmote_buffer = "tc\n" /\ beefmote_notify_playlistchanged

\* A second read in one session is about to be made.
C40_SecondRead == tpc = "read" /\ nread >= 1 /\ nacc = 1 /\ inbox # ""

====================================================================
